---- MODULE Spec2Model ----
(***************************************************************************)
(* Verification model of the data structures of CP-Templates.              *)
(*                                                                         *)
(* The lazy-propagation aggregation trees: the array-backed                *)
(* LazyPropSegtree (src/LazyPropSegtree.cpp) and the pointer-based         *)
(* DynamicSegmentTree (src/unnamed/part_000).  They are templates over a   *)
(* client algebra (op, updVal, updLazy and the two identities); the model  *)
(* instantiates them with a handful of concrete algebras, named by         *)
(* strings, and runs Query/Update calls drawn from small sets against a    *)
(* brute-force reference array.                                            *)
(*                                                                         *)
(* Further: DisjointSparseTable, the binary-lifting LCA, the heavy-light   *)
(* decomposition HLD over the point-update SegmentTree, and                *)
(* DisjointSetUnion, each with its own variables and specification.        *)
(***************************************************************************)
EXTENDS Integers, Sequences, FiniteSets, TLC

\* ------------------------------------------------------------------------
\* Bounds of the exploration
\* ------------------------------------------------------------------------

\* Largest size N of a dense tree in the general configurations.
MaxN == 4

\* Number of Query/Update calls explored from every constructed tree
\* (the documented usage scenarios are followed to their end besides).
MaxOps == 2

\* INT_MAX, the identity of min in the README of the dense tree.
IntMax == 2147483647

\* ------------------------------------------------------------------------
\* Integer helpers
\* ------------------------------------------------------------------------

RECURSIVE Pow2(_)
Pow2(k) == IF k <= 0 THEN 1 ELSE 2 * Pow2(k - 1)

\* pos >> shift on a non-negative int.
Shr(pos, shift) == pos \div Pow2(shift)

RECURSIVE BitLen(_)
BitLen(x) == IF x <= 0 THEN 0 ELSE 1 + BitLen(x \div 2)

\* __builtin_clz on a positive 32-bit int.
Clz(x) == 32 - BitLen(x)

\* ------------------------------------------------------------------------
\* Client algebras of the dense tree.  T and U are int (or built from int);
\* the values the explored calls produce stay far from the ends of int, and
\* TLC stops with an overflow error should an addition ever leave it. (template parameters op, updVal,
\* updLazy; constructor arguments identityOp, identityUpdate)
\*   MinAdd     min aggregate, additive update (the README's example)
\*   MinAssign  min aggregate, assignment update, -1 = "no assignment"
\*   SumAdd     sum aggregate over plain ints, updVal = curval + v
\*   SumLenAdd  sum aggregate carried as <<sum, count>>, updVal adds v*count
\*   CatAdd     concatenation of int sequences, update adds v to each entry
\* ------------------------------------------------------------------------

DenseAlgs == {"MinAdd", "MinAssign", "SumAdd", "SumLenAdd", "CatAdd"}

Op(alg, a, b) ==
    CASE alg \in {"MinAdd", "MinAssign"} -> (IF b < a THEN b ELSE a)
      [] alg = "SumAdd"    -> a + b
      [] alg = "SumLenAdd" -> <<a[1] + b[1], a[2] + b[2]>>
      [] alg = "CatAdd"    -> a \o b

UpdVal(alg, curval, v) ==
    CASE alg \in {"MinAdd", "SumAdd"} -> curval + v
      [] alg = "MinAssign" -> (IF v = -1 THEN curval ELSE v)
      [] alg = "SumLenAdd" -> <<curval[1] + v * curval[2], curval[2]>>
      [] alg = "CatAdd"    -> [i \in 1..Len(curval) |-> curval[i] + v]

UpdLazy(alg, curval, v) ==
    CASE alg = "MinAssign" -> (IF v = -1 THEN curval ELSE v)
      [] OTHER             -> curval + v

IdOp(alg) ==
    CASE alg \in {"MinAdd", "MinAssign"} -> IntMax
      [] alg = "SumAdd"    -> 0
      [] alg = "SumLenAdd" -> <<0, 0>>
      [] alg = "CatAdd"    -> <<>>

IdUpd(alg) == IF alg = "MinAssign" THEN -1 ELSE 0

\* T{}: the value std::vector<T>(2 * size_) gives the slots nothing fills.
ZeroT(alg) ==
    CASE alg = "SumLenAdd" -> <<0, 0>>
      [] alg = "CatAdd"    -> <<>>
      [] OTHER             -> 0

\* The element holding the int x in each algebra.
Elem(alg, x) ==
    CASE alg = "SumLenAdd" -> <<x, 1>>
      [] alg = "CatAdd"    -> <<x>>
      [] OTHER             -> x

\* Update values the calls draw from.
UpdVals(alg) == IF alg = "MinAssign" THEN {7, 8} ELSE {10}

\* ------------------------------------------------------------------------
\* Dense tree: LazyPropSegtree
\* ------------------------------------------------------------------------

VARIABLES
    dcfg,     \* how the tree was constructed: algebra, constructor, input
    size_,    \* number of elements N
    LOG_,     \* level count used by Propagate
    tree_,    \* 2N aggregate slots, leaves at [N, 2N)
    lazy_,    \* N lazy slots
    dref,     \* brute-force reference array a'[0..N)
    dlast,    \* the last call: kind, arguments, result, slots it touched
    dprev,    \* tree_ and lazy_ as they were before the last call
    dnops,    \* number of calls made
    dstep,    \* calls of the configuration's scenario made so far, -1 once left
    dseen,    \* what kinds of call have been made so far
    dtwin     \* a second tree, built by the other constructor and given the
              \* same calls (where .on)

dvars == <<dcfg, size_, LOG_, tree_, lazy_, dref, dlast, dprev, dnops, dstep, dseen,
           dtwin>>

\* State of the sparse tree (DynamicSegmentTree).
VARIABLES
    scfg,     \* how the tree was constructed: algebra, domain, scenario
    heap,     \* the allocated nodes, and the number of nodes ever allocated
    slast,    \* the last call: kind, arguments, result, how it ended
    sprev,    \* the heap as it was before the last call
    slog,     \* the Update calls made so far, in call order
    snops,    \* number of calls made
    sstep     \* calls of the configuration's scenario made so far, -1 once left

svars == <<scfg, heap, slast, sprev, slog, snops, sstep>>

\* State of the disjoint sparse table (DisjointSparseTable).
VARIABLES
    tcfg,     \* how the table was constructed: operation, input array
    table,    \* the object: size_ and the layers data_
    tlast     \* the last Query: arguments and result

tvars == <<tcfg, table, tlast>>

\* State of the binary-lifting table (LCA).
VARIABLES
    lcfg,     \* the tree handed to the constructor
    lca,      \* the object: adj, n, logN, up, depth
    lroot,    \* the root preprocess was called with, -1 before the call
    llast     \* the last kthAncestor call: arguments and result

lvars == <<lcfg, lca, lroot, llast>>

\* State of the heavy-light decomposition (HLD).
VARIABLES
    hcfg,     \* the tree handed to the constructor, and the scenario
    hld,      \* the object: adj, n, counter, size, preorder, nxt, parent,
              \* depth, segTree
    href,     \* reference value of every node
    hlast,    \* the last call: arguments, result, intervals it passed on
    hstep     \* number of calls made

hvars == <<hcfg, hld, href, hlast, hstep>>

\* State of the union-find structure (DisjointSetUnion).
VARIABLES
    ucfg,     \* the number of elements handed to the constructor
    set,      \* the object: n, set_count, dsu
    uref,     \* reference: the partition the joins generate, and a tally
    ulast     \* the last call: kind, arguments, result

uvars == <<ucfg, set, uref, ulast>>

\* The structures besides the two trees.
ovars == <<tvars, lvars, hvars, uvars>>

vars == <<dvars, svars, ovars>>

identityOp_ == IdOp(dcfg.alg)
identityUpdate_ == IdUpd(dcfg.alg)

\* The memory an operation works on: the two vectors, followed by the cells
\* that lie behind them (tree_[2N], tree_[2N+1], lazy_[N], lazy_[N+1]), whose
\* content g is whatever the heap holds at the time of the call.  accT and
\* accL collect the indices the call reads or writes; LOG is the object's
\* member LOG_.
MemOf(tree, lazy, g, log) ==
    [tree |-> [i \in 0..(2 * size_ + 1) |->
                  IF i < 2 * size_ THEN tree[i] ELSE g.t[i - 2 * size_ + 1]],
     lazy |-> [i \in 0..(size_ + 1) |->
                  IF i < size_ THEN lazy[i] ELSE g.u[i - size_ + 1]],
     accT |-> {}, accL |-> {}, LOG |-> log]

\* The memory of the tree under exploration.
Mem(tree, lazy, g) == MemOf(tree, lazy, g, LOG_)

TreeOf(m) == [i \in 0..(2 * size_ - 1) |-> m.tree[i]]
LazyOf(m) == [i \in 0..(size_ - 1) |-> m.lazy[i]]

SetT(m, i, v) == [m EXCEPT !.tree[i] = v, !.accT = @ \cup {i}]
SetL(m, i, v) == [m EXCEPT !.lazy[i] = v, !.accL = @ \cup {i}]

\* Constructor from a range of elements: the bottom-up build loop.
RECURSIVE BuildLoop(_, _, _)
BuildLoop(alg, tree, i) ==
    IF i > 0
    THEN BuildLoop(alg, [tree EXCEPT ![i] = Op(alg, tree[2 * i], tree[2 * i + 1])], i - 1)
    ELSE tree

RangeCtor(alg, arr) ==
    LET n == Len(arr)
        copied == [i \in 0..(2 * n - 1) |-> IF i >= n THEN arr[i - n + 1] ELSE ZeroT(alg)]
    IN [size |-> n,
        LOG  |-> 32 - Clz(n),
        tree |-> BuildLoop(alg, copied, n - 1),
        lazy |-> [i \in 0..(n - 1) |-> IdUpd(alg)]]

\* The constructor with a given size computing LOG_ one lower (a mutant of
\* SizeCtor).
SizeCtorLowLog(alg, n) ==
    [size |-> n,
     LOG  |-> 30 - Clz(n),
     tree |-> [i \in 0..(2 * n - 1) |-> IdOp(alg)],
     lazy |-> [i \in 0..(n - 1) |-> IdUpd(alg)]]

\* Constructor with a given size.
SizeCtor(alg, n) ==
    [size |-> n,
     LOG  |-> 31 - Clz(n),
     tree |-> [i \in 0..(2 * n - 1) |-> IdOp(alg)],
     lazy |-> [i \in 0..(n - 1) |-> IdUpd(alg)]]

\* One round of Propagate's loop, at node i = pos >> shift.
PropagateNode(m, i) ==
    LET m0 == [m EXCEPT !.accL = @ \cup {i}]
    IN IF m0.lazy[i] # identityUpdate_
       THEN LET m1 == SetT(m0, 2 * i, UpdVal(dcfg.alg, m0.tree[2 * i], m0.lazy[i]))
                m2 == SetL(m1, 2 * i, UpdLazy(dcfg.alg, m1.lazy[2 * i], m1.lazy[i]))
                m3 == SetT(m2, 2 * i + 1, UpdVal(dcfg.alg, m2.tree[2 * i + 1], m2.lazy[i]))
                m4 == SetL(m3, 2 * i + 1, UpdLazy(dcfg.alg, m3.lazy[2 * i + 1], m3.lazy[i]))
            IN SetL(m4, i, identityUpdate_)
       ELSE m0

RECURSIVE PropagateLoop(_, _, _)
PropagateLoop(m, pos, shift) ==
    IF shift > 1
    THEN PropagateLoop(PropagateNode(m, Shr(pos, shift)), pos, shift - 1)
    ELSE m

\* The step after the loop with the tag left in place after it was applied
\* to the children (a mutant of PropagateLast).
PropagateLastKeepTag(m, p) ==
    LET m0 == [m EXCEPT !.accL = @ \cup {p}]
    IN IF m0.lazy[p] # identityUpdate_
       THEN LET m1 == SetT(m0, 2 * p, UpdVal(dcfg.alg, m0.tree[2 * p], m0.lazy[p]))
            IN SetT(m1, 2 * p + 1, UpdVal(dcfg.alg, m1.tree[2 * p + 1], m1.lazy[p]))
       ELSE m0

\* The step after the loop, at the parent pos / 2 of the position: the tag
\* goes into the two children's aggregates only.
PropagateLast(m, p) ==
    LET m0 == [m EXCEPT !.accL = @ \cup {p}]
    IN IF m0.lazy[p] # identityUpdate_
       THEN LET m1 == SetT(m0, 2 * p, UpdVal(dcfg.alg, m0.tree[2 * p], m0.lazy[p]))
                m2 == SetT(m1, 2 * p + 1, UpdVal(dcfg.alg, m1.tree[2 * p + 1], m1.lazy[p]))
            IN SetL(m2, p, identityUpdate_)
       ELSE m0

\* Propagate whose loop starts one level lower, at shift LOG_ - 1 (a mutant
\* of Propagate).
PropagateBelowTop(m, pos) ==
    PropagateLast(PropagateLoop(m, pos, m.LOG - 1), pos \div 2)

\* Propagate(pos)
Propagate(m, pos) == PropagateLast(PropagateLoop(m, pos, m.LOG), pos \div 2)

\* recalculate_after_update that recombines the children and forgets the
\* node's own pending tag (a mutant of RecalcLoop).
RECURSIVE RecalcLoopNoTag(_, _)
RecalcLoopNoTag(m, pos) ==
    IF pos > 0
    THEN RecalcLoopNoTag(SetT([m EXCEPT !.accT = @ \cup {2 * pos, 2 * pos + 1}], pos,
                              Op(dcfg.alg, m.tree[2 * pos], m.tree[2 * pos + 1])),
                         pos \div 2)
    ELSE m

\* recalculate_after_update
RECURSIVE RecalcLoop(_, _)
RecalcLoop(m, pos) ==
    IF pos > 0
    THEN LET m1 == SetT([m EXCEPT !.accT = @ \cup {2 * pos, 2 * pos + 1}], pos,
                        Op(dcfg.alg, m.tree[2 * pos], m.tree[2 * pos + 1]))
             m2 == SetT([m1 EXCEPT !.accL = @ \cup {pos}], pos,
                        UpdVal(dcfg.alg, m1.tree[pos], m1.lazy[pos]))
         IN RecalcLoop(m2, pos \div 2)
    ELSE m

recalculate_after_update(m, pos) == RecalcLoop(m, pos \div 2)

\* The accumulation loop of Query; s = [m, left_result, right_result].
QueryLeft(s, left) ==
    IF left % 2 = 1
    THEN [s EXCEPT !.left_result = Op(dcfg.alg, s.left_result, s.m.tree[left]),
                   !.m.accT = @ \cup {left}]
    ELSE s

\* The right accumulator folded on the wrong side (a mutant of QueryRight).
QueryRightSwapped(s, right) ==
    IF right % 2 = 1
    THEN [s EXCEPT !.right_result = Op(dcfg.alg, s.right_result, s.m.tree[right - 1]),
                   !.m.accT = @ \cup {right - 1}]
    ELSE s

QueryRight(s, right) ==
    IF right % 2 = 1
    THEN [s EXCEPT !.right_result = Op(dcfg.alg, s.m.tree[right - 1], s.right_result),
                   !.m.accT = @ \cup {right - 1}]
    ELSE s

RECURSIVE QueryLoop(_, _, _)
QueryLoop(s, left, right) ==
    IF left < right
    THEN LET l1 == IF left % 2 = 1 THEN left + 1 ELSE left
             r1 == IF right % 2 = 1 THEN right - 1 ELSE right
         IN QueryLoop(QueryRight(QueryLeft(s, left), right), l1 \div 2, r1 \div 2)
    ELSE s

\* Query with its accumulators value-initialised (T{}) instead of set to
\* identityOp_ (a mutant of Query).
QueryZeroInit(m, left, right) ==
    LET l0 == left + size_
        r0 == right + size_
        m2 == Propagate(Propagate(m, l0), r0 - 1)
        s  == QueryLoop([m |-> m2, left_result |-> ZeroT(dcfg.alg),
                         right_result |-> ZeroT(dcfg.alg)], l0, r0)
    IN [m |-> s.m, res |-> Op(dcfg.alg, s.left_result, s.right_result)]

\* Query(left, right): the memory after the call and the value returned.
Query(m, left, right) ==
    LET l0 == left + size_
        r0 == right + size_
        m2 == Propagate(Propagate(m, l0), r0 - 1)
        s  == QueryLoop([m |-> m2, left_result |-> identityOp_,
                         right_result |-> identityOp_], l0, r0)
    IN [m |-> s.m, res |-> Op(dcfg.alg, s.left_result, s.right_result)]

\* Update: the two leaf-level applications before the loop.
UpdateLeaves(m, left, right, value) ==
    LET m1 == IF left % 2 = 1
              THEN SetT(m, left, UpdVal(dcfg.alg, m.tree[left], value))
              ELSE m
    IN IF right % 2 = 1
       THEN SetT(m1, right - 1, UpdVal(dcfg.alg, m1.tree[right - 1], value))
       ELSE m1

\* The update applied to the aggregate of node i but not composed into its
\* tag (a mutant of UpdateNode).
UpdateNodeNoTag(m, i, value) ==
    SetT(m, i, UpdVal(dcfg.alg, m.tree[i], value))

\* One application inside Update's loop: aggregate and tag of node i.
UpdateNode(m, i, value) ==
    SetL(SetT(m, i, UpdVal(dcfg.alg, m.tree[i], value)),
         i, UpdLazy(dcfg.alg, m.lazy[i], value))

RECURSIVE UpdateLoop(_, _, _, _)
UpdateLoop(m, left, right, value) ==
    IF left < right
    THEN LET m1 == IF left % 2 = 1 THEN UpdateNode(m, left, value) ELSE m
             l1 == IF left % 2 = 1 THEN left + 1 ELSE left
             m2 == IF right % 2 = 1 THEN UpdateNode(m1, right - 1, value) ELSE m1
             r1 == IF right % 2 = 1 THEN right - 1 ELSE right
         IN UpdateLoop(m2, l1 \div 2, r1 \div 2, value)
    ELSE m

\* Update(left, right, value): the memory after the call.
Update(m, left, right, value) ==
    LET l0 == left + size_
        r0 == right + size_
        m1 == UpdateLeaves(m, l0, r0, value)
        l1 == IF l0 % 2 = 1 THEN l0 + 1 ELSE l0
        r1 == IF r0 % 2 = 1 THEN r0 - 1 ELSE r0
        m2 == UpdateLoop(m1, l1 \div 2, r1 \div 2, value)
    IN recalculate_after_update(recalculate_after_update(m2, l0), r0 - 1)

\* ------------------------------------------------------------------------
\* Dense tree: configurations, reference array, calls
\* ------------------------------------------------------------------------

\* Element values of the general configurations, in index order.
InitVals == <<3, 1, 4, 2, 6, 5, 9, 8>>

NoScript == <<>>

Q(l, r, alg) == [kind |-> "Query", l |-> l, r |-> r, u |-> IdUpd(alg)]
U(l, r, v) == [kind |-> "Update", l |-> l, r |-> r, u |-> v]

\* The calls of the usage scenarios: Query(1,4), Update(1,4,10), Query(1,4),
\* Query(2,3).
UsageScript(alg) == <<Q(1, 4, alg), U(1, 4, 10), Q(1, 4, alg), Q(2, 3, alg)>>

\* The general configurations: every size up to MaxN, under an algebra with
\* commuting updates, one with non-commuting updates and one with a
\* non-commutative op.  The usage scenarios: the spec's [1,2,3,4,5] under
\* both forms of the sum algebra, the README's [2,5,3,4,1] under min.
GeneralAlgs == {"MinAdd", "MinAssign", "CatAdd"}

DenseConfigs ==
    { [alg |-> a, ctor |-> "range", n |-> n,
       arr |-> [i \in 1..n |-> Elem(a, InitVals[i])], script |-> NoScript]
        : a \in GeneralAlgs, n \in 1..MaxN }
    \cup
    { [alg |-> a, ctor |-> "range", n |-> 5,
       arr |-> [i \in 1..5 |-> Elem(a, i)], script |-> UsageScript(a)]
        : a \in {"SumAdd", "SumLenAdd"} }
    \cup
    { [alg |-> "MinAdd", ctor |-> "range", n |-> 5,
       arr |-> [i \in 1..5 |-> <<2, 5, 3, 4, 1>>[i]], script |-> UsageScript("MinAdd")] }

Construct(c) ==
    IF c.ctor = "range" THEN RangeCtor(c.alg, c.arr) ELSE SizeCtor(c.alg, c.n)

\* What the heap may hold behind the vectors (four samples).  Only a call
\* with left = right = N reaches those cells.
Heap(alg, l, n) ==
    IF l = n
    THEN { [t |-> <<Elem(alg, 0), Elem(alg, 0)>>, u |-> <<IdUpd(alg), IdUpd(alg)>>],
           [t |-> <<Elem(alg, 9), Elem(alg, 0)>>, u |-> <<5, IdUpd(alg)>>],
           [t |-> <<Elem(alg, 0), Elem(alg, 9)>>, u |-> <<IdUpd(alg), 5>>],
           [t |-> <<Elem(alg, 9), Elem(alg, 9)>>, u |-> <<5, 5>>] }
    ELSE {[t |-> <<ZeroT(alg), ZeroT(alg)>>, u |-> <<IdUpd(alg), IdUpd(alg)>>]}

\* No second tree is kept.
NoTwin == [on |-> FALSE]

\* Brute force: combine of a[l..r-1] in index order, a 0-based.
RECURSIVE Fold(_, _, _, _)
Fold(alg, a, l, r) ==
    IF l >= r THEN IdOp(alg) ELSE Op(alg, Fold(alg, a, l, r - 1), a[r - 1])

RefUpdate(alg, a, l, r, v) ==
    [i \in DOMAIN a |-> IF l <= i /\ i < r THEN UpdVal(alg, a[i], v) ELSE a[i]]

DOnScript(call) ==
    /\ dstep >= 0
    /\ dstep < Len(dcfg.script)
    /\ dcfg.script[dstep + 1] = call

\* A configuration is explored for MaxOps calls drawn freely; a scenario is
\* followed to its end, with one free call fewer around it.
DFreeCalls == IF dcfg.script = NoScript THEN MaxOps ELSE MaxOps - 1

DMayCall(call) == dnops < DFreeCalls \/ DOnScript(call)

DBook(call) ==
    /\ dnops' = dnops + 1
    /\ dstep' = IF DOnScript(call) THEN dstep + 1 ELSE -1
    /\ dprev' = [tree |-> tree_, lazy |-> lazy_]
    /\ dseen' = [upd   |-> dseen.upd \/ call.kind = "Update",
                 empty |-> dseen.empty \/ call.l = call.r]
    /\ UNCHANGED <<dcfg, size_, LOG_>>
    /\ UNCHANGED <<svars, ovars>>

DInit ==
    /\ dcfg \in DenseConfigs
    /\ LET t == Construct(dcfg)
       IN /\ size_ = t.size
          /\ LOG_ = t.LOG
          /\ tree_ = t.tree
          /\ lazy_ = t.lazy
          /\ dref = [i \in 0..(t.size - 1) |-> t.tree[t.size + i]]
          /\ dprev = [tree |-> t.tree, lazy |-> t.lazy]
    /\ dlast = [kind |-> "none", l |-> 0, r |-> 0, u |-> IdUpd(dcfg.alg),
                res |-> IdOp(dcfg.alg), accT |-> {}, accL |-> {}]
    /\ dnops = 0
    /\ dstep = 0
    /\ dseen = [upd |-> FALSE, empty |-> FALSE]
    /\ dtwin = NoTwin

\* The same Query on the second tree.
TwinQuery(l, r, g) ==
    IF dtwin.on
    THEN LET q == Query(MemOf(dtwin.tree, dtwin.lazy, g, dtwin.LOG), l, r)
         IN [dtwin EXCEPT !.tree = TreeOf(q.m), !.lazy = LazyOf(q.m), !.res = q.res]
    ELSE dtwin

\* The same Update on the second tree.
TwinUpdate(l, r, v, g) ==
    IF dtwin.on
    THEN LET m == Update(MemOf(dtwin.tree, dtwin.lazy, g, dtwin.LOG), l, r, v)
         IN [dtwin EXCEPT !.tree = TreeOf(m), !.lazy = LazyOf(m), !.res = identityOp_]
    ELSE dtwin

DQuery(l, r, g) ==
    /\ DMayCall(Q(l, r, dcfg.alg))
    /\ LET q == Query(Mem(tree_, lazy_, g), l, r)
       IN /\ tree_' = TreeOf(q.m)
          /\ lazy_' = LazyOf(q.m)
          /\ dlast' = [kind |-> "Query", l |-> l, r |-> r, u |-> identityUpdate_,
                       res |-> q.res, accT |-> q.m.accT, accL |-> q.m.accL]
    /\ dref' = dref
    /\ dtwin' = TwinQuery(l, r, g)
    /\ DBook(Q(l, r, dcfg.alg))

DUpdate(l, r, v, g) ==
    /\ DMayCall(U(l, r, v))
    /\ LET m == Update(Mem(tree_, lazy_, g), l, r, v)
       IN /\ tree_' = TreeOf(m)
          /\ lazy_' = LazyOf(m)
          /\ dlast' = [kind |-> "Update", l |-> l, r |-> r, u |-> v,
                       res |-> identityOp_, accT |-> m.accT, accL |-> m.accL]
    /\ dref' = RefUpdate(dcfg.alg, dref, l, r, v)
    /\ dtwin' = TwinUpdate(l, r, v, g)
    /\ DBook(U(l, r, v))

DNext ==
    \E l \in 0..size_ : \E r \in l..size_ : \E g \in Heap(dcfg.alg, l, size_) :
        \/ DQuery(l, r, g)
        \/ \E v \in UpdVals(dcfg.alg) : DUpdate(l, r, v, g)


\* ------------------------------------------------------------------------
\* Dense tree: what a call would return in a given state
\* ------------------------------------------------------------------------

\* The heap content assumed where no cell behind the vectors is reached.
NoHeap(alg) == [t |-> <<ZeroT(alg), ZeroT(alg)>>, u |-> <<IdUpd(alg), IdUpd(alg)>>]

\* The value Query(l, r) returns when called on the vectors tree and lazy.
QueryRes(tree, lazy, l, r) == Query(Mem(tree, lazy, NoHeap(dcfg.alg)), l, r).res

\* Non-empty ranges 0 <= l < r <= N.
DRanges == {p \in (0..size_) \X (0..size_) : p[1] < p[2]}

\* The algebras that satisfy the contract (SumAdd does not: adding v to a
\* sum of two elements is not the sum of the two elements with v added).
ContractAlgs == {"MinAdd", "MinAssign", "SumLenAdd", "CatAdd"}

\* The calls made so far kept to the documented non-empty ranges.
DOnlyNonEmpty == ~dseen.empty

\* The configurations of the usage scenarios.
DScenario(alg) == dcfg.alg = alg /\ dcfg.script # NoScript

\* The elements as single-element queries show them.
DLogical == [i \in 0..(size_ - 1) |-> QueryRes(tree_, lazy_, i, i + 1)]

\* ------------------------------------------------------------------------
\* Claims about the dense tree
\* ------------------------------------------------------------------------

\* C1 (as claimed): for every algebra that satisfies the contract, assignment
\* included, and every sequence of Update and Query calls with
\* 0 <= l < r <= N, each Query(l, r) returns the combine of the reference
\* array over [l, r).
C1_DenseMatchesReference ==
    (DOnlyNonEmpty /\ dcfg.alg \in ContractAlgs) =>
        /\ \A p \in DRanges :
              QueryRes(tree_, lazy_, p[1], p[2]) = Fold(dcfg.alg, dref, p[1], p[2])
        /\ (dlast.kind = "Query" /\ dlast.l < dlast.r) =>
              dlast.res = Fold(dcfg.alg, dref, dlast.l, dlast.r)

\* C3: on a tree freshly built by the range constructor (no Update yet),
\* for every size N, power of two or not, and every 0 <= l < r <= N,
\* Query(l, r) returns a[l] op ... op a[r-1] with the operands in increasing
\* index order, also when op is not commutative (concatenation).
C3_FreshQueryInIndexOrder ==
    (dcfg.ctor = "range" /\ ~dseen.upd) =>
        LET a == [i \in 0..(size_ - 1) |-> dcfg.arr[i + 1]]
        IN /\ \A p \in DRanges :
                 QueryRes(tree_, lazy_, p[1], p[2]) = Fold(dcfg.alg, a, p[1], p[2])
           /\ (dlast.kind = "Query" /\ dlast.l < dlast.r) =>
                 dlast.res = Fold(dcfg.alg, a, dlast.l, dlast.r)

\* C3 witness: a query over a whole tree of three sequences returned their
\* concatenation in index order.
C3_Witness ==
    /\ dcfg.alg = "CatAdd" /\ size_ = 3 /\ ~dseen.upd
    /\ dlast.kind = "Query" /\ dlast.l = 0 /\ dlast.r = 3
    /\ dlast.res = <<3, 1, 4>>

\* C4 (as claimed): Update(k, k, u) is a no-op: after it every Query(a, b)
\* returns what it returned before it.
C4_EmptyUpdateChangesNothing ==
    (dlast.kind = "Update" /\ dlast.l = dlast.r) =>
        \A p \in DRanges :
            QueryRes(tree_, lazy_, p[1], p[2]) = QueryRes(dprev.tree, dprev.lazy, p[1], p[2])

\* C5: in every reachable state and for every 0 <= k <= N, Query(k, k)
\* returns identityOp_, whatever the cells behind the vectors hold.
C5_EmptyQueryReturnsIdentity ==
    /\ (dlast.kind = "Query" /\ dlast.l = dlast.r) => dlast.res = identityOp_
    /\ \A k \in 0..size_ : \A g \in Heap(dcfg.alg, k, size_) :
           Query(Mem(tree_, lazy_, g), k, k).res = identityOp_

\* C5 witness: Query(N, N) was called after an update, read the cell behind
\* lazy_ and returned the identity.
C5_Witness ==
    /\ dlast.kind = "Query" /\ dlast.l = size_ /\ dlast.r = size_
    /\ dseen.upd
    /\ size_ \in dlast.accL
    /\ dlast.res = identityOp_

C7_MinScenario ==
    DScenario("MinAdd") =>
        /\ dstep = 1 => dlast.res = 3
        /\ dstep = 2 => DLogical = [i \in 0..4 |-> <<2, 15, 13, 14, 1>>[i + 1]]
        /\ dstep = 3 => dlast.res = 13
        /\ dstep = 4 => dlast.res = 13

\* C7 witness: the README's scenario ran to its last query, Query(2,3) = 13.
C7_Witness ==
    /\ DScenario("MinAdd") /\ dstep = 4
    /\ dlast.kind = "Query" /\ dlast.l = 2 /\ dlast.r = 3
    /\ dlast.res = 13

\* ------------------------------------------------------------------------
\* Sparse tree: DynamicSegmentTree
\*
\* Client algebras (the tree calls op and updLazy only; updLazy receives the
\* node's tag and aggregate by reference, the update and the node's range):
\*   SumAdd     sum, updLazy: tag += v, aggregate += v * (right - left + 1)
\*   MinAssign  min, updLazy: tag = v, aggregate = v (-1 = "no assignment")
\*   CatAssign  concatenation, updLazy: tag = v, aggregate = one v per index
\*   SumReadme  sum, with the README's updLazy, whose body is "curval += v"
\* ------------------------------------------------------------------------

nullptr == -1

\* The root is the first node allocated.
Root == 0

SOp(alg, a, b) ==
    CASE alg \in {"SumAdd", "SumReadme"} -> a + b
      [] alg = "MinAssign" -> (IF b < a THEN b ELSE a)
      [] alg = "CatAssign" -> a \o b

\* updLazy(lazy_, value_, v, start_, end_): the tag and the aggregate after it.
SUpdLazy(alg, curval, val, v, left, right) ==
    CASE alg = "SumAdd"    -> [lazy |-> curval + v, val |-> val + v * (right - left + 1)]
      [] alg = "SumReadme" -> [lazy |-> curval + v, val |-> val]
      [] alg = "MinAssign" -> [lazy |-> v, val |-> v]
      [] alg = "CatAssign" -> [lazy |-> v, val |-> [i \in 1..(right - left + 1) |-> v]]

\* updVal, which the reference array applies to one element.
SUpdVal(alg, curval, v) ==
    CASE alg \in {"SumAdd", "SumReadme"} -> curval + v
      [] alg = "MinAssign" -> v
      [] alg = "CatAssign" -> <<v>>

SIdOp(alg) ==
    CASE alg \in {"SumAdd", "SumReadme"} -> 0
      [] alg = "MinAssign" -> IntMax
      [] alg = "CatAssign" -> <<>>

SIdUpd(alg) == IF alg \in {"SumAdd", "SumReadme"} THEN 0 ELSE -1

\* The least k with 2^k >= n, for n >= 1.
RECURSIVE CeilLog2(_)
CeilLog2(n) == IF n <= 1 THEN 0 ELSE 1 + CeilLog2((n + 1) \div 2)

\* The recursion depth a call on a domain of the configuration's size needs
\* when every child covers half of its parent: ceil(log2(end-start+1)) + 1.
DepthBound == CeilLog2(scfg.end - scfg.start + 1) + 1

\* How far past DepthBound a recursion is followed before it is given up as
\* running away.
DepthSlack == 2

\* The recursion has reached a node deeper than any terminating call needs.
RunsAway(n) == n.depth_ > DepthBound + DepthSlack

\* (start + end) / 2 on long long: the quotient truncates toward zero.
Half(x) == IF x >= 0 THEN x \div 2 ELSE -((-x) \div 2)

\* long long has scfg.bits bits: 64, or fewer where the whole type is scaled
\* down so that its largest domain can be explored.  At 64 bits no explored
\* sum comes near the ends of the type.
Overflows(x) ==
    /\ scfg.bits < 64
    /\ (x > Pow2(scfg.bits - 1) - 1 \/ x < -Pow2(scfg.bits - 1))

\* What a signed addition leaves behind where it overflows and the build lets
\* it wrap around.
WrapLL(x) ==
    IF ~Overflows(x) THEN x
    ELSE IF x > 0 THEN x - Pow2(scfg.bits) ELSE x + Pow2(scfg.bits)

\* The build traps signed overflow (-ftrapv, a sanitizer) and start + end of
\* a node over [start, end] overflows: the constructor aborts the program.
Traps(start, end) == scfg.build = "trap" /\ Overflows(start + end)

\* DynamicSegmentTree(start, end, identityOp, identityUpdate)
\* depth_ is not a member: it records how deep below the root object the
\* node sits (the root has depth 1), which is the recursion depth of a call
\* when it reaches the node.
NewNode(start, end, depth) ==
    [start_ |-> start, end_ |-> end, middle_ |-> Half(WrapLL(start + end)),
     depth_ |-> depth,
     value_ |-> SIdOp(scfg.alg), lazy_ |-> SIdUpd(scfg.alg),
     left_ |-> nullptr, right_ |-> nullptr]

\* The free store before anything is allocated.
\*   nodes  the objects constructed so far, by address
\*   next   the address the next allocation gets
\*   fuel   how many more allocations succeed (-1: all of them)
\*   threw  an allocation has failed and the exception is on its way out
\*   freed  how many times each address has been deleted
\*   bad    a deleted or null address has been dereferenced
\*   dead   the root object has been destroyed
\*   lost   a call has recursed deeper than any terminating call does
\*   seen   the objects Query or Update was invoked on during the last call
\*   trap   an overflow trap has aborted the program
EmptyHeap ==
    [nodes |-> <<>>, next |-> Root, fuel |-> -1, threw |-> FALSE,
     freed |-> <<>>, bad |-> FALSE, dead |-> FALSE, lost |-> FALSE,
     seen |-> {}, trap |-> FALSE]

\* new DynamicSegmentTree(...): the heap with the node added; its address is
\* the former h.next.
New(h, node) ==
    [h EXCEPT !.nodes = @ @@ (h.next :> node),
              !.next = @ + 1,
              !.fuel = IF @ > 0 THEN @ - 1 ELSE @]

\* new fails: std::bad_alloc leaves the function.
Throw(h) == [h EXCEPT !.threw = TRUE]

\* Mutant of Materialize: the children are created again on every call.
MaterializeAlways(h, id) ==
    LET n  == h.nodes[id]
        h1 == New(h, NewNode(n.start_, n.middle_, n.depth_ + 1))
        h2 == New(h1, NewNode(n.middle_ + 1, n.end_, n.depth_ + 1))
    IN [h2 EXCEPT !.nodes[id].left_ = h.next, !.nodes[id].right_ = h1.next]

\* Mutant of Materialize: the children are also created anew whenever the
\* node holds a pending tag.
MaterializeOnTag(h, id) ==
    LET n == h.nodes[id]
    IN IF n.left_ = nullptr \/ n.lazy_ # SIdUpd(scfg.alg)
       THEN IF h.fuel = 0
            THEN Throw(h)
            ELSE LET h1 == [New(h, NewNode(n.start_, n.middle_, n.depth_ + 1))
                               EXCEPT !.nodes[id].left_ = h.next]
                 IN IF h1.fuel = 0
                    THEN Throw(h1)
                    ELSE [New(h1, NewNode(n.middle_ + 1, n.end_, n.depth_ + 1))
                             EXCEPT !.nodes[id].right_ = h1.next]
       ELSE h

\* The program is aborted inside a constructor.
Abort(h) == [h EXCEPT !.trap = TRUE]

\* Propagate: create both children if left_ is null.  left_ is assigned
\* before the second new starts; a new that fails assigns nothing.
Materialize(h, id) ==
    LET n == h.nodes[id]
    IN IF n.left_ = nullptr
       THEN IF h.fuel = 0
            THEN Throw(h)
            ELSE IF Traps(n.start_, n.middle_)
            THEN Abort(h)
            ELSE LET h1 == [New(h, NewNode(n.start_, n.middle_, n.depth_ + 1))
                               EXCEPT !.nodes[id].left_ = h.next]
                 IN IF h1.fuel = 0
                    THEN Throw(h1)
                    ELSE IF Traps(n.middle_ + 1, n.end_)
                    THEN Abort(h1)
                    ELSE [New(h1, NewNode(n.middle_ + 1, n.end_, n.depth_ + 1))
                             EXCEPT !.nodes[id].right_ = h1.next]
       ELSE h

\* Mutant of ApplyTo: only the tag of node c takes the update.
ApplyToTagOnly(h, c, v) ==
    LET n == h.nodes[c]
        x == SUpdLazy(scfg.alg, n.lazy_, n.value_, v, n.start_, n.end_)
    IN [h EXCEPT !.nodes[c].lazy_ = x.lazy]

\* updLazy(c->lazy_, c->value_, v, c->start_, c->end_) on node c.
ApplyTo(h, c, v) ==
    LET n == h.nodes[c]
        x == SUpdLazy(scfg.alg, n.lazy_, n.value_, v, n.start_, n.end_)
    IN [h EXCEPT !.nodes[c].lazy_ = x.lazy, !.nodes[c].value_ = x.val]

\* Mutant of DynPropagate: the tag is cleared without reaching the children.
DynPropagateNoPush(h, id) ==
    [Materialize(h, id) EXCEPT !.nodes[id].lazy_ = SIdUpd(scfg.alg)]

\* Mutant of DynPropagate: the tag reaches the children and stays on the
\* node.
DynPropagateKeepTag(h, id) ==
    LET h1 == Materialize(h, id)
        n  == h1.nodes[id]
    IN IF h1.threw \/ h1.trap \/ n.lazy_ = SIdUpd(scfg.alg)
       THEN h1
       ELSE ApplyTo(ApplyTo(h1, n.left_, n.lazy_), n.right_, n.lazy_)

\* Propagate on node id: the heap after the call.
DynPropagate(h, id) ==
    LET h1 == Materialize(h, id)
        n  == h1.nodes[id]
    IN IF h1.threw \/ h1.trap \/ n.lazy_ = SIdUpd(scfg.alg)
       THEN h1
       ELSE [ApplyTo(ApplyTo(h1, n.left_, n.lazy_), n.right_, n.lazy_)
                EXCEPT !.nodes[id].lazy_ = SIdUpd(scfg.alg)]

\* Mutant of Recompute: the aggregate of node id is left as it was.
RecomputeSkipped(h, id) == h

\* value_ = op(left_->value_, right_->value_) on node id.
Recompute(h, id) ==
    [h EXCEPT !.nodes[id].value_ =
        SOp(scfg.alg, h.nodes[h.nodes[id].left_].value_,
                      h.nodes[h.nodes[id].right_].value_)]

\* The recursive member functions run on an explicit call stack.  A machine
\* holds the heap h, the stack stk of activation frames (the innermost
\* last), the value res the last finished Query returned, and the arguments
\* left, right, value, which every recursive call passes on unchanged.  A
\* frame names its function fn, its object id (this), the point pc it
\* has reached, and acc, where Query keeps its left operand.
Frame(fn, id) == [fn |-> fn, id |-> id, pc |-> 0, acc |-> 0]

Machine(h, fn, id, left, right, value) ==
    [h |-> [h EXCEPT !.seen = {}], stk |-> <<Frame(fn, id)>>, res |-> SIdOp(scfg.alg),
     left |-> left, right |-> right, value |-> value]

Top(m) == m.stk[Len(m.stk)]

\* return; from the innermost call (res the value returned, if any).
Return(m, h, res) ==
    [m EXCEPT !.h = h, !.res = res, !.stk = SubSeq(@, 1, Len(@) - 1)]

\* The innermost call moves on to point pc and calls fn on object id.
Call(m, h, pc, acc, fn, id) ==
    [m EXCEPT !.h = h,
              !.stk = Append([@ EXCEPT ![Len(@)].pc = pc, ![Len(@)].acc = acc],
                             Frame(fn, id))]

\* An exception leaves every call on the stack (nothing catches it); an
\* abort ends them all.
Unwind(m, h) == [m EXCEPT !.h = h, !.stk = <<>>]

\* The call of the innermost frame f has just been entered on its object.
Enter(m, f) == [m EXCEPT !.h.seen = @ \cup {f.id}]

\* A recursion that runs away is given up.
GiveUp(m) == [m EXCEPT !.h.lost = TRUE, !.stk = <<>>]

\* One step of Query on the innermost frame f.  The two recursive calls are
\* arguments of one op(...) call; they work on disjoint subtrees, and the
\* left one is taken first here.
QueryStep(m, f) ==
    LET n == m.h.nodes[f.id]
    IN IF f.pc = 1 THEN Call(m, m.h, 2, m.res, "Query", n.right_)
       ELSE IF f.pc = 2 THEN Return(m, m.h, SOp(scfg.alg, f.acc, m.res))
       ELSE IF RunsAway(n) THEN GiveUp(m)
       ELSE LET e == Enter(m, f)
            IN IF m.right < n.start_ \/ n.end_ < m.left
               THEN Return(e, e.h, SIdOp(scfg.alg))
               ELSE IF m.left <= n.start_ /\ n.end_ <= m.right
               THEN Return(e, e.h, n.value_)
               ELSE LET h1 == DynPropagate(e.h, f.id)
                    IN IF h1.threw \/ h1.trap THEN Unwind(e, h1)
                       ELSE Call(e, h1, 1, f.acc, "Query", h1.nodes[f.id].left_)

\* Update that creates the children of a node before it applies the update
\* to it when the range covers the node (a mutant of UpdateStep).
UpdateStepEager(m, f) ==
    LET n == m.h.nodes[f.id]
    IN IF f.pc = 1 THEN Call(m, m.h, 2, f.acc, "Update", n.right_)
       ELSE IF f.pc = 2 THEN Return(m, Recompute(m.h, f.id), m.res)
       ELSE IF RunsAway(n) THEN GiveUp(m)
       ELSE LET e == Enter(m, f)
            IN IF m.right < n.start_ \/ n.end_ < m.left
               THEN Return(e, e.h, m.res)
               ELSE IF m.left <= n.start_ /\ n.end_ <= m.right
               THEN Return(e, ApplyTo(Materialize(e.h, f.id), f.id, m.value), m.res)
               ELSE LET h1 == DynPropagate(e.h, f.id)
                    IN IF h1.threw \/ h1.trap THEN Unwind(e, h1)
                       ELSE Call(e, h1, 1, f.acc, "Update", h1.nodes[f.id].left_)

\* One step of Update on the innermost frame f.
UpdateStep(m, f) ==
    LET n == m.h.nodes[f.id]
    IN IF f.pc = 1 THEN Call(m, m.h, 2, f.acc, "Update", n.right_)
       ELSE IF f.pc = 2 THEN Return(m, Recompute(m.h, f.id), m.res)
       ELSE IF RunsAway(n) THEN GiveUp(m)
       ELSE LET e == Enter(m, f)
            IN IF m.right < n.start_ \/ n.end_ < m.left
               THEN Return(e, e.h, m.res)
               ELSE IF m.left <= n.start_ /\ n.end_ <= m.right
               THEN Return(e, ApplyTo(e.h, f.id, m.value), m.res)
               ELSE LET h1 == DynPropagate(e.h, f.id)
                    IN IF h1.threw \/ h1.trap THEN Unwind(e, h1)
                       ELSE Call(e, h1, 1, f.acc, "Update", h1.nodes[f.id].left_)

\* The innermost call moves on to point pc without calling anything.
Goto(m, h, pc) == [m EXCEPT !.h = h, !.stk[Len(m.stk)].pc = pc]

\* p->...: dereferencing address p, which must be a live object.
Deref(h, p) ==
    [h EXCEPT !.bad = @ \/ p = nullptr \/ p \in DOMAIN h.freed]

\* The storage at address p is released.
Free(h, p) ==
    [h EXCEPT !.freed = IF p \in DOMAIN @ THEN [@ EXCEPT ![p] = @ + 1]
                        ELSE @ @@ (p :> 1)]

\* Mutant of ClearStep: the right child is handled under the test of the
\* left one.
ClearStepPaired(m, f) ==
    LET n == m.h.nodes[f.id]
    IN CASE f.pc = 0 /\ n.left_ # nullptr ->
                Call(m, Deref(m.h, n.left_), 1, f.acc, "Clear", n.left_)
         [] f.pc = 0 /\ n.left_ = nullptr -> Return(m, m.h, m.res)
         [] f.pc = 1 -> Call(m, m.h, 2, f.acc, "Dtor", n.left_)
         [] f.pc = 2 -> Goto(m, [Deref(m.h, n.right_) EXCEPT !.nodes[f.id].left_ = nullptr], 3)
         [] f.pc = 3 /\ n.right_ # nullptr ->
                Call(m, m.h, 4, f.acc, "Clear", n.right_)
         [] f.pc = 3 /\ n.right_ = nullptr -> Return(m, m.h, m.res)
         [] f.pc = 4 -> Call(m, m.h, 5, f.acc, "Dtor", n.right_)
         [] f.pc = 5 -> Return(m, [m.h EXCEPT !.nodes[f.id].right_ = nullptr], m.res)

\* One step of Clear on the innermost frame f:
\*   0  if (left_)    left_->Clear();
\*   1                delete left_;
\*   2                left_ = nullptr;
\*   3  if (right_)   right_->Clear();
\*   4                delete right_;
\*   5                right_ = nullptr;
ClearStep(m, f) ==
    LET n == m.h.nodes[f.id]
    IN CASE f.pc = 0 /\ n.left_ # nullptr ->
                Call(m, Deref(m.h, n.left_), 1, f.acc, "Clear", n.left_)
         [] f.pc = 0 /\ n.left_ = nullptr -> Goto(m, m.h, 3)
         [] f.pc = 1 -> Call(m, m.h, 2, f.acc, "Dtor", n.left_)
         [] f.pc = 2 -> Goto(m, [m.h EXCEPT !.nodes[f.id].left_ = nullptr], 3)
         [] f.pc = 3 /\ n.right_ # nullptr ->
                Call(m, Deref(m.h, n.right_), 4, f.acc, "Clear", n.right_)
         [] f.pc = 3 /\ n.right_ = nullptr -> Return(m, m.h, m.res)
         [] f.pc = 4 -> Call(m, m.h, 5, f.acc, "Dtor", n.right_)
         [] f.pc = 5 -> Return(m, [m.h EXCEPT !.nodes[f.id].right_ = nullptr], m.res)

\* Mutant of DtorStep: the destructor releases the object without Clear().
DtorStepNoClear(m, f) == Return(m, Free(Deref(m.h, f.id), f.id), m.res)

\* One step of the end of an object's life (delete p, or the root leaving
\* its scope): ~DynamicSegmentTree() calls Clear(), then the storage goes.
DtorStep(m, f) ==
    CASE f.pc = 0 -> Call(m, Deref(m.h, f.id), 1, f.acc, "Clear", f.id)
      [] f.pc = 1 -> Return(m, Free(m.h, f.id), m.res)

Step(m) ==
    LET f == Top(m)
    IN CASE f.fn = "Query" -> QueryStep(m, f)
         [] f.fn = "Update" -> UpdateStep(m, f)
         [] f.fn = "Clear" -> ClearStep(m, f)
         [] f.fn = "Dtor" -> DtorStep(m, f)

\* Steps are taken until the outermost call has returned; at most 2^StepLog.
StepLog == 10

RECURSIVE Steps(_, _)
Steps(k, m) ==
    IF m.stk = <<>> THEN m
    ELSE IF k = 0 THEN Step(m)
    ELSE Steps(k - 1, Steps(k - 1, m))

Run(m) == Steps(StepLog, m)

\* Query on node id: the heap after the call and the value returned.
DynQuery(h, id, left, right) ==
    LET m == Run(Machine(h, "Query", id, left, right, 0))
    IN [h |-> m.h, res |-> m.res]

\* Update on node id: the heap after the call.
DynUpdate(h, id, left, right, value) ==
    Run(Machine(h, "Update", id, left, right, value)).h

\* ------------------------------------------------------------------------
\* Sparse tree: exploration
\* ------------------------------------------------------------------------

\* Largest end of the general domains.
SMaxEnd == 2

\* The large domain of the min/assign scenario: [0, 10^9].
BigEnd == 10^9

SQ(l, r) == [kind |-> "Query", l |-> l, r |-> r, u |-> 0]

\* README Basic Usage: five point updates, Query(1,3), Update(1,3,10),
\* Query(1,3), Query(2,2).
ReadmeScript ==
    <<U(0, 0, 1), U(1, 1, 2), U(2, 2, 3), U(3, 3, 4), U(4, 4, 5),
      SQ(1, 3), U(1, 3, 10), SQ(1, 3), SQ(2, 2)>>

\* The min/assign scenario on the large domain.
BigScript == <<U(100, 200, 5), SQ(150, 150), SQ(0, 50)>>

\* Two overlapping assignments, then queries across their border.
AssignScript == <<U(0, 2, 7), U(1, 3, 8), SQ(0, 1), SQ(1, 2)>>

SUpdVals(alg) == IF alg \in {"SumAdd", "SumReadme"} THEN {10} ELSE {7, 8}

SGeneralAlgs == {"SumAdd", "MinAssign", "CatAssign"}

Ranges(lo, hi) == {p \in (lo..hi) \X (lo..hi) : p[1] <= p[2]}

\* The ranges offered on the large domain.
BigRanges == {<<100, 200>>, <<150, 150>>, <<0, 50>>, <<150, 250>>}

\* The general configurations: domains [0,e] and [1,e] up to SMaxEnd under
\* each algebra.  The scenarios: the README's usage with the README's own
\* updLazy and with an updLazy that also updates the aggregate, the large
\* domain under min/assign, overlapping assignments on [0,3].
SparseConfigs ==
    { [alg |-> a, start |-> s, end |-> e, script |-> NoScript,
       ranges |-> Ranges(s, e), vals |-> SUpdVals(a), bits |-> 64, build |-> "wrap"]
        : a \in SGeneralAlgs, s \in 0..1, e \in 1..SMaxEnd }
    \cup
    { [alg |-> a, start |-> 0, end |-> 4, script |-> ReadmeScript,
       ranges |-> Ranges(0, 4), vals |-> SUpdVals(a), bits |-> 64, build |-> "wrap"]
        : a \in {"SumReadme", "SumAdd"} }
    \cup
    { [alg |-> "MinAssign", start |-> 0, end |-> BigEnd, script |-> BigScript,
       ranges |-> BigRanges, vals |-> {5}, bits |-> 64, build |-> "wrap"] }
    \cup
    { [alg |-> a, start |-> 0, end |-> 3, script |-> AssignScript,
       ranges |-> Ranges(0, 3), vals |-> SUpdVals(a), bits |-> 64, build |-> "wrap"]
        : a \in {"MinAssign", "CatAssign"} }

\* The calls a configuration offers.
SCalls(c) ==
    { SQ(p[1], p[2]) : p \in c.ranges }
    \cup { U(p[1], p[2], v) : p \in c.ranges, v \in c.vals }
    \cup { c.script[i] : i \in DOMAIN c.script }

SOnScript(call) ==
    /\ sstep >= 0
    /\ sstep < Len(scfg.script)
    /\ scfg.script[sstep + 1] = call

SFreeCalls == IF scfg.script = NoScript THEN MaxOps ELSE MaxOps - 1

\* Some call has reached a node deeper than any terminating call needs:
\* that call is still recursing, and no further call starts.
Overrun(h) == h.lost

SMayCall(call) ==
    /\ snops < SFreeCalls \/ SOnScript(call)
    /\ ~Overrun(heap)
    /\ ~heap.dead
    /\ ~heap.threw
    /\ ~heap.trap

SBook(call) ==
    /\ snops' = snops + 1
    /\ sstep' = IF SOnScript(call) THEN sstep + 1 ELSE -1
    /\ sprev' = heap
    /\ UNCHANGED scfg
    /\ UNCHANGED <<dvars, ovars>>

\* Construction: the root alone, no children.
SInit ==
    /\ scfg \in SparseConfigs
    /\ heap = New(EmptyHeap, NewNode(scfg.start, scfg.end, 1))
    /\ sprev = heap
    /\ slast = [kind |-> "none", l |-> 0, r |-> 0, u |-> 0, res |-> SIdOp(scfg.alg),
                out |-> "none"]
    /\ slog = <<>>
    /\ snops = 0
    /\ sstep = 0

SQuery(call) ==
    /\ call.kind = "Query"
    /\ SMayCall(call)
    /\ LET q == DynQuery(heap, Root, call.l, call.r)
       IN /\ heap' = q.h
          /\ slast' = [kind |-> "Query", l |-> call.l, r |-> call.r, u |-> 0,
                       res |-> q.res, out |-> "returned"]
    /\ slog' = slog
    /\ SBook(call)

SUpdate(call) ==
    /\ call.kind = "Update"
    /\ SMayCall(call)
    /\ heap' = DynUpdate(heap, Root, call.l, call.r, call.u)
    /\ slast' = [kind |-> "Update", l |-> call.l, r |-> call.r, u |-> call.u,
                 res |-> SIdOp(scfg.alg), out |-> "returned"]
    /\ slog' = Append(slog, call)
    /\ SBook(call)

SNext ==
    \E call \in SCalls(scfg) :
        \/ SQuery(call)
        \/ SUpdate(call)

\* While one structure is explored the others are not constructed.
DIdle ==
    /\ dcfg = [alg |-> "none"]
    /\ size_ = 0
    /\ LOG_ = 0
    /\ tree_ = <<>>
    /\ lazy_ = <<>>
    /\ dref = <<>>
    /\ dlast = [kind |-> "none"]
    /\ dprev = <<>>
    /\ dnops = 0
    /\ dstep = 0
    /\ dseen = [upd |-> FALSE, empty |-> FALSE]
    /\ dtwin = [on |-> FALSE]

SIdle ==
    /\ scfg = [alg |-> "none"]
    /\ heap = EmptyHeap
    /\ slast = [kind |-> "none"]
    /\ sprev = heap
    /\ slog = <<>>
    /\ snops = 0
    /\ sstep = 0

TIdle ==
    /\ tcfg = [op |-> "none"]
    /\ table = [size_ |-> 0, data_ |-> <<>>]
    /\ tlast = [kind |-> "none"]

LIdle ==
    /\ lcfg = [n |-> 0]
    /\ lca = [n |-> 0]
    /\ lroot = -1
    /\ llast = [kind |-> "none"]

HIdle ==
    /\ hcfg = [n |-> 0]
    /\ hld = [n |-> 0]
    /\ href = <<>>
    /\ hlast = [kind |-> "none"]
    /\ hstep = 0

UIdle ==
    /\ ucfg = [n |-> 0]
    /\ set = [n |-> 0]
    /\ uref = [classes |-> {}]
    /\ ulast = [kind |-> "none"]

OIdle == TIdle /\ LIdle /\ HIdle /\ UIdle

DenseInit == DInit /\ SIdle /\ OIdle

SparseInit == SInit /\ DIdle /\ OIdle

SpecDense == DenseInit /\ [][DNext]_vars

SpecSparse == SparseInit /\ [][SNext]_vars

\* ------------------------------------------------------------------------
\* Sparse tree: what a call would return, and the brute-force reference
\* ------------------------------------------------------------------------

\* The value Query(l, r) returns when called on the root of heap h.
SQueryRes(h, l, r) == DynQuery(h, Root, l, r).res

\* Element i of the reference array: idOp, then applyUpdate(., u) for every
\* logged Update whose range holds i, in call order.
RECURSIVE RefElem(_, _, _)
RefElem(alg, log, i) ==
    IF log = <<>>
    THEN SIdOp(alg)
    ELSE LET k    == Len(log)
             rest == RefElem(alg, SubSeq(log, 1, k - 1), i)
         IN IF log[k].l <= i /\ i <= log[k].r
            THEN SUpdVal(alg, rest, log[k].u)
            ELSE rest

\* combine over the reference elements l..r (inclusive), in index order
\* (bracketed by halves; op is associative).
RECURSIVE SFold(_, _, _, _)
SFold(alg, log, l, r) ==
    IF l > r THEN SIdOp(alg)
    ELSE IF l = r THEN RefElem(alg, log, l)
    ELSE SOp(alg, SFold(alg, log, l, (l + r) \div 2),
                  SFold(alg, log, (l + r) \div 2 + 1, r))

SContractAlgs == {"SumAdd", "MinAssign", "CatAssign"}

\* [l, r] shares no index with the range of any logged Update.
DisjointFromUpdates(l, r) ==
    \A k \in DOMAIN slog : slog[k].r < l \/ r < slog[k].l

\* Node n lies partly inside and partly outside [l, r].
SPartial(n, l, r) ==
    /\ ~(r < n.start_ \/ n.end_ < l)
    /\ ~(l <= n.start_ /\ n.end_ <= r)

\* The nodes allocated by the last call.
NewIds == sprev.next..(heap.next - 1)

ParentOf(x) ==
    CHOOSE p \in DOMAIN heap.nodes :
        heap.nodes[p].left_ = x \/ heap.nodes[p].right_ = x

\* ------------------------------------------------------------------------
\* Claims about the sparse tree
\* ------------------------------------------------------------------------

\* C2: under every algebra whose updLazy applies the update to the node's
\* aggregate and composes it into the tag (sum/add, min/assign, concat/assign),
\* after every sequence of in-domain Update and Query calls, a Query(l,r)
\* returns the combine over l..r of the reference array built from the
\* earlier Updates in call order: both for the Query just made and for every
\* Query the configuration offers next.
C2_SparseMatchesReference ==
    scfg.alg \in SContractAlgs =>
        /\ slast.kind = "Query" =>
               slast.res = SFold(scfg.alg, slog, slast.l, slast.r)
        /\ \A p \in scfg.ranges :
               SQueryRes(heap, p[1], p[2]) = SFold(scfg.alg, slog, p[1], p[2])

\* C2 witness: under concat/assign on [0,3], after Update(0,2,7) and
\* Update(1,3,8) the call Query(0,1) has returned <<7, 8>>.
C2_Witness ==
    /\ scfg.alg = "CatAssign"
    /\ scfg.script = AssignScript
    /\ sstep = 3
    /\ slast.kind = "Query"
    /\ slast.res = <<7, 8>>

\* C8: on the min/assign tree over [0, 10^9], once Update(100,200,5) is the
\* only Update made, Query(150,150) returns 5 and Query(0,50) returns idOp
\* (+infinity, INT_MAX), both when called next and when called in the
\* scenario's order.
C8_BigDomainScenario ==
    (scfg.end = BigEnd /\ slog = <<U(100, 200, 5)>>) =>
        /\ SQueryRes(heap, 150, 150) = 5
        /\ SQueryRes(heap, 0, 50) = IntMax
        /\ sstep = 2 => slast.res = 5
        /\ sstep = 3 => slast.res = IntMax

\* C8 witness: the scenario has run to its end; its last call, Query(0,50),
\* returned +infinity.
C8_Witness ==
    /\ scfg.end = BigEnd
    /\ sstep = 3
    /\ slast = [kind |-> "Query", l |-> 0, r |-> 50, u |-> 0, res |-> IntMax,
                out |-> "returned"]
    /\ slog = <<U(100, 200, 5)>>

\* C9 as stated: a Query whose range is disjoint from the ranges of all
\* earlier Updates returns idOp and leaves the count of allocated nodes as it
\* was before the call.
C9_DisjointQueryAllocatesNothing ==
    (slast.kind = "Query" /\ DisjointFromUpdates(slast.l, slast.r)) =>
        /\ slast.res = SIdOp(scfg.alg)
        /\ heap.next = sprev.next

\* C9 amended: a Query(l,r) whose range is disjoint from the ranges of all
\* earlier Updates returns idOp and changes no aggregate or tag of an
\* existing node; it materializes exactly the children of the childless
\* nodes that [l,r] overlaps partly, each holding idOp with no pending tag.
\* In the scenario Query(0,50) after Update(100,200,5) and Query(150,150)
\* allocates ten nodes.
C9_DisjointQueryAllocatesOnItsPath ==
    (slast.kind = "Query" /\ DisjointFromUpdates(slast.l, slast.r)) =>
        /\ slast.res = SIdOp(scfg.alg)
        /\ \A p \in DOMAIN sprev.nodes :
               /\ heap.nodes[p].value_ = sprev.nodes[p].value_
               /\ heap.nodes[p].lazy_ = sprev.nodes[p].lazy_
               /\ sprev.nodes[p].left_ # nullptr =>
                      /\ heap.nodes[p].left_ = sprev.nodes[p].left_
                      /\ heap.nodes[p].right_ = sprev.nodes[p].right_
        /\ \A x \in NewIds :
               /\ heap.nodes[x].value_ = SIdOp(scfg.alg)
               /\ heap.nodes[x].lazy_ = SIdUpd(scfg.alg)
               /\ SPartial(heap.nodes[ParentOf(x)], slast.l, slast.r)
        /\ \A p \in DOMAIN heap.nodes :
               SPartial(heap.nodes[p], slast.l, slast.r) =>
                   heap.nodes[p].left_ # nullptr
        /\ (scfg.end = BigEnd /\ sstep = 3) => heap.next - sprev.next = 10

\* C9 witness: Query(0,50) has just run after Update(100,200,5) on the large
\* domain, returned idOp and allocated nodes.
C9_Witness ==
    /\ scfg.end = BigEnd
    /\ slast.kind = "Query"
    /\ slast.l = 0
    /\ slast.r = 50
    /\ slog = <<U(100, 200, 5)>>
    /\ slast.res = SIdOp(scfg.alg)
    /\ heap.next > sprev.next

\* C10: with the operations as the README gives them (updLazy's body only
\* "curval += v"), the README's usage on [0,4] yields Query(1,3) = 9 after
\* the five point updates, and Query(1,3) = 39 and Query(2,2) = 13 after
\* Update(1,3,10).
C10_ReadmeScenario ==
    (scfg.alg = "SumReadme" /\ scfg.script = ReadmeScript) =>
        /\ sstep = 6 => slast.res = 9
        /\ sstep = 8 => slast.res = 39
        /\ sstep = 9 => slast.res = 13

\* ------------------------------------------------------------------------
\* Sparse tree on domains with a negative start
\* ------------------------------------------------------------------------

\* The most negative start explored is -NegMax.
NegMax == 2

\* Domains [s,e] with -NegMax <= s < 0 and s <= e <= 1.
NegConfigs ==
    { c \in { [alg |-> a, start |-> s, end |-> e, script |-> NoScript,
               ranges |-> Ranges(s, e), vals |-> SUpdVals(a),
               bits |-> 64, build |-> "wrap"]
                : a \in {"SumAdd", "MinAssign"}, s \in (-NegMax)..(-1),
                  e \in (-NegMax)..1 } :
          c.start <= c.end }

SNegInit ==
    /\ scfg \in NegConfigs
    /\ heap = New(EmptyHeap, NewNode(scfg.start, scfg.end, 1))
    /\ sprev = heap
    /\ slast = [kind |-> "none", l |-> 0, r |-> 0, u |-> 0, res |-> SIdOp(scfg.alg),
                out |-> "none"]
    /\ slog = <<>>
    /\ snops = 0
    /\ sstep = 0

SparseNegInit == SNegInit /\ DIdle /\ OIdle

SpecSparseNeg == SparseNegInit /\ [][SNext]_vars

\* Every materialized child covers a non-empty range strictly inside its
\* parent's.
ChildrenShrink(h) ==
    \A p \in DOMAIN h.nodes :
        h.nodes[p].left_ # nullptr =>
            \A c \in {h.nodes[p].left_, h.nodes[p].right_} :
                /\ h.nodes[c].start_ <= h.nodes[c].end_
                /\ h.nodes[p].start_ <= h.nodes[c].start_
                /\ h.nodes[c].end_ <= h.nodes[p].end_
                /\ h.nodes[c].end_ - h.nodes[c].start_
                       < h.nodes[p].end_ - h.nodes[p].start_

\* C11: on every domain [start,end] with start <= end, negative starts
\* included, every Update and Query with start <= l <= r <= end terminates:
\* every child it materializes covers a non-empty range strictly smaller than
\* its parent's, and no node lies deeper than ceil(log2(end-start+1)) + 1.
C11_SparseTerminates ==
    /\ ChildrenShrink(heap)
    /\ \A p \in DOMAIN heap.nodes : heap.nodes[p].depth_ <= DepthBound

\* ------------------------------------------------------------------------
\* Sparse tree: calls whose range breaks the requirement
\* start <= left <= right <= end
\* ------------------------------------------------------------------------

\* Ranges with left > right, with right past the end, with left before the
\* start, and wholly past the end.
SBadRanges(c) ==
    { <<p[2], p[1]>> : p \in {q \in c.ranges : q[1] < q[2]} }
    \cup { <<c.start, c.end + 1>>, <<c.start - 1, c.end>>,
           <<c.end + 1, c.end + 1>> }

SBadCalls(c) ==
    { SQ(p[1], p[2]) : p \in SBadRanges(c) }
    \cup { U(p[1], p[2], v) : p \in SBadRanges(c), v \in c.vals }

\* The public calls with any arguments: Query and Update run the same code
\* whether or not the range meets the requirement.
SRangeNext ==
    \E call \in SCalls(scfg) \cup SBadCalls(scfg) :
        \/ SQuery(call)
        \/ SUpdate(call)

SpecSparseRange == SparseInit /\ [][SRangeNext]_vars

BadRange(l, r) == l > r \/ l < scfg.start \/ r > scfg.end

\* C12: a Query or Update called with left > right or with a bound outside
\* the domain ends in an error outcome and leaves the aggregates and tags of
\* the structure as they were before the call.
C12_RangeErrorsFailFast ==
    (slast.kind # "none" /\ BadRange(slast.l, slast.r)) =>
        /\ slast.out = "error"
        /\ \A p \in DOMAIN sprev.nodes :
               /\ heap.nodes[p].value_ = sprev.nodes[p].value_
               /\ heap.nodes[p].lazy_ = sprev.nodes[p].lazy_

\* ------------------------------------------------------------------------
\* Sparse tree: allocation failure and destruction
\* ------------------------------------------------------------------------

\* An allocation failure is explored at the first MaxFuel + 1 allocations of
\* a call.
MaxFuel == 3

\* How many allocations of a call succeed: all (-1), or the first k.
Fuels == {-1} \cup 0..MaxFuel

\* How a call that leaves heap h behind has ended.
Outcome(h) == IF h.threw THEN "threw" ELSE "returned"

\* Query, with the allocations after the first fuel of them failing.
SQueryF(call, fuel) ==
    /\ call.kind = "Query"
    /\ SMayCall(call)
    /\ LET q == DynQuery([heap EXCEPT !.fuel = fuel], Root, call.l, call.r)
       IN /\ heap' = [q.h EXCEPT !.fuel = -1]
          /\ slast' = [kind |-> "Query", l |-> call.l, r |-> call.r, u |-> 0,
                       res |-> q.res, out |-> Outcome(q.h)]
    /\ slog' = slog
    /\ SBook(call)

\* Update, with the allocations after the first fuel of them failing.
SUpdateF(call, fuel) ==
    /\ call.kind = "Update"
    /\ SMayCall(call)
    /\ LET h == DynUpdate([heap EXCEPT !.fuel = fuel], Root, call.l, call.r, call.u)
       IN /\ heap' = [h EXCEPT !.fuel = -1]
          /\ slast' = [kind |-> "Update", l |-> call.l, r |-> call.r, u |-> call.u,
                       res |-> SIdOp(scfg.alg), out |-> Outcome(h)]
    /\ slog' = Append(slog, call)
    /\ SBook(call)

\* The root object is destroyed: its destructor runs.
SDestroy ==
    /\ ~heap.dead
    /\ ~Overrun(heap)
    /\ heap' = [Run(Machine(heap, "Dtor", Root, 0, 0, 0)).h EXCEPT !.dead = TRUE]
    /\ slast' = [kind |-> "Destroy", l |-> 0, r |-> 0, u |-> 0,
                 res |-> SIdOp(scfg.alg), out |-> "returned"]
    /\ sprev' = heap
    /\ UNCHANGED <<scfg, slog, snops, sstep>>
    /\ UNCHANGED <<dvars, ovars>>

SLifeNext ==
    \/ \E call \in SCalls(scfg) : \E fuel \in Fuels :
           \/ SQueryF(call, fuel)
           \/ SUpdateF(call, fuel)
    \/ SDestroy

SpecSparseLife == SparseInit /\ [][SLifeNext]_vars

\* Every object ever constructed has been released exactly once, and no
\* deleted or null address was dereferenced on the way.
AllReleasedOnce(h) ==
    /\ ~h.bad
    /\ \A p \in DOMAIN h.nodes : p \in DOMAIN h.freed /\ h.freed[p] = 1
    /\ DOMAIN h.freed \subseteq DOMAIN h.nodes

\* C13: after any sequence of Update and Query calls (none of which failed
\* to allocate), destroying the root releases every node ever materialized
\* below it exactly once: none leaked, none freed twice, none accessed after
\* its release.
C13_DestructionReleasesAll ==
    (heap.dead /\ ~heap.threw) => AllReleasedOnce(heap)

\* C13 witness: the root was destroyed after calls that had materialized at
\* least four nodes below it, and every node is released once.
C13_Witness ==
    /\ heap.dead
    /\ ~heap.threw
    /\ heap.next >= 5
    /\ slog # <<>>
    /\ AllReleasedOnce(heap)

\* C14: when a new inside Propagate has failed (for the left child or for
\* the right one) and the exception has reached the caller, destroying the
\* tree releases every node that was allocated exactly once and
\* dereferences no null or deleted child.
C14_DestructibleAfterFailure ==
    (heap.dead /\ heap.threw) => AllReleasedOnce(heap)

\* C14 witness: the tree was destroyed while some node had its left child
\* but not its right one (the second new had failed), and every node is
\* released once.
C14_Witness ==
    /\ heap.dead
    /\ heap.threw
    /\ \E p \in DOMAIN sprev.nodes :
           sprev.nodes[p].left_ # nullptr /\ sprev.nodes[p].right_ = nullptr
    /\ AllReleasedOnce(heap)

\* ------------------------------------------------------------------------
\* Disjoint sparse table: DisjointSparseTable
\* (src/DataStructures/DisjointSparseTable/DisjointSparseTable.hpp)
\* ------------------------------------------------------------------------

\* Longest input array in the general configurations.
TMaxLen == 3

\* Operations the table is instantiated with (template parameter op):
\*   Mul  product of ints (the README's example)
\*   Add  sum of ints
\*   Cat  concatenation of int sequences (associative, not commutative)
TOps == {"Mul", "Add", "Cat"}

TOp(op, a, b) ==
    CASE op = "Mul" -> a * b
      [] op = "Add" -> a + b
      [] op = "Cat" -> a \o b

\* T(), the value std::vector<T>(size_) fills a layer with.
TDefault(op) == IF op = "Cat" THEN <<>> ELSE 0

\* left ^ right on non-negative ints.
RECURSIVE Xor(_, _)
Xor(a, b) ==
    IF a = 0 /\ b = 0 THEN 0
    ELSE (IF a % 2 = b % 2 THEN 0 ELSE 1) + 2 * Xor(a \div 2, b \div 2)

Min(a, b) == IF a < b THEN a ELSE b

\* for (x = right - 1; x >= left; --x) row[x] = op(row[x], row[x + 1])
RECURSIVE PropagateLeft(_, _, _, _)
PropagateLeft(op, row, x, left) ==
    IF x < left THEN row
    ELSE PropagateLeft(op, [row EXCEPT ![x] = TOp(op, row[x], row[x + 1])],
                       x - 1, left)

\* for (x = left + 1; x <= right; ++x) row[x] = op(row[x - 1], row[x])
RECURSIVE PropagateRight(_, _, _, _)
PropagateRight(op, row, x, right) ==
    IF x > right THEN row
    ELSE PropagateRight(op, [row EXCEPT ![x] = TOp(op, row[x - 1], row[x])],
                        x + 1, right)

\* The inner while loop of the constructor over one layer: blocks of size h,
\* alternately accumulated towards their left end and towards their right
\* end.
RECURSIVE Blocks(_, _, _, _, _, _)
Blocks(op, row, left, right, h, size) ==
    IF left >= size THEN row
    ELSE LET row1   == PropagateLeft(op, row, right - 1, left)
             left1  == left + h
             right1 == Min(right + h, size - 1)
         IN IF left1 >= size THEN row1
            ELSE Blocks(op, PropagateRight(op, row1, left1 + 1, right1),
                        left1 + h, Min(right1 + h, size - 1), h, size)

\* The outer while loop: one layer per block size h = 1, 2, 4, ... < size_.
RECURSIVE Layers(_, _, _, _, _)
Layers(op, data, layer, h, size) ==
    IF h >= size THEN data
    ELSE Layers(op,
                [data EXCEPT ![layer] =
                     Blocks(op, data[layer], 0, Min(h, size) - 1, h, size)],
                layer + 1, 2 * h, size)

\* The constructor from the elements a[0..N), N >= 1: 33 - clz(N) layers of
\* N value-initialized elements, the input copied into layer 0, then the
\* loops.
DisjointSparseTable(op, a) ==
    LET size == Len(a)
        data == [l \in 0..(32 - Clz(size)) |->
                    [x \in 0..(size - 1) |->
                        IF l = 0 THEN a[x + 1] ELSE TDefault(op)]]
    IN [size_ |-> size, data_ |-> Layers(op, data, 0, 1, size)]

\* Query(left, right) on table t.
TableQuery(op, t, left, right) ==
    IF left = right
    THEN t.data_[0][left]
    ELSE LET layer == 31 - Clz(Xor(left, right))
         IN TOp(op, t.data_[layer][left], t.data_[layer][right])

\* The ints an input array is drawn from.
TElems == {2, 3}

\* The input of a configuration as elements of T: under Cat an element is a
\* one-entry sequence.
TInput(c) ==
    [i \in DOMAIN c.a |-> IF c.op = "Cat" THEN <<c.a[i]>> ELSE c.a[i]]

\* The README's array.
ReadmeArr == <<1, 2, 3, 4, 5>>

RECURSIVE Arrays(_, _)
Arrays(elems, n) ==
    IF n = 0 THEN {<<>>}
    ELSE {Append(a, e) : a \in Arrays(elems, n - 1), e \in elems}

TConfigs ==
    { [op |-> c[1], a |-> c[2]] :
        c \in UNION { {o} \X Arrays(TElems, n) : o \in TOps, n \in 1..TMaxLen } }
    \cup { [op |-> "Mul", a |-> ReadmeArr] }

TInit ==
    /\ tcfg \in TConfigs
    /\ table = DisjointSparseTable(tcfg.op, TInput(tcfg))
    /\ tlast = [kind |-> "none", l |-> 0, r |-> 0, res |-> TDefault(tcfg.op)]

TQuery(left, right) ==
    /\ left <= right
    /\ tlast' = [kind |-> "Query", l |-> left, r |-> right,
                 res |-> TableQuery(tcfg.op, table, left, right)]
    /\ UNCHANGED <<tcfg, table>>
    /\ UNCHANGED <<dvars, svars, lvars, hvars, uvars>>

TNext ==
    \E left \in 0..(table.size_ - 1), right \in 0..(table.size_ - 1) :
        TQuery(left, right)

TableInit == TInit /\ DIdle /\ SIdle /\ LIdle /\ HIdle /\ UIdle

SpecTable == TableInit /\ [][TNext]_vars

\* a[left] op ... op a[right] in index order (a is 1-based in the model).
RECURSIVE TFold(_, _, _, _)
TFold(op, a, left, right) ==
    IF left = right THEN a[left + 1]
    ELSE TOp(op, TFold(op, a, left, right - 1), a[right + 1])

\* C15: for a table built from a[0..N), Query(left,right) with
\* 0 <= left <= right < N returns a[left] op ... op a[right], operands in
\* index order; with multiplication on [1,2,3,4,5], Query(1,3) = 24 and
\* Query(4,4) = 5.
C15_TableQueryIsRangeFold ==
    tlast.kind = "Query" =>
        tlast.res = TFold(tcfg.op, TInput(tcfg), tlast.l, tlast.r)

\* ------------------------------------------------------------------------
\* Binary lifting: LCA (src/unnamed/part_003)
\* ------------------------------------------------------------------------

\* Largest number of nodes of a tree.
LMaxN == 4

\* Largest k passed to kthAncestor.
LMaxK == 9

\* The elements of a finite set of ints in ascending order.
RECURSIVE Sorted(_)
Sorted(S) ==
    IF S = {} THEN <<>>
    ELSE LET x == CHOOSE y \in S : \A z \in S : y <= z
         IN <<x>> \o Sorted(S \ {x})

\* The trees on the nodes 0..n-1: every node i > 0 is joined to one node
\* below i.
TreeShapes(n) == [1..(n - 1) -> 0..(n - 1)]

IsShape(par) == \A i \in DOMAIN par : par[i] < i

\* The adjacency list (0-based) of the tree given by par.
AdjOf(n, par) ==
    [x \in 0..(n - 1) |->
        Sorted({y \in 0..(n - 1) :
                    \/ (y \in DOMAIN par /\ par[y] = x)
                    \/ (x \in DOMAIN par /\ par[x] = y)})]

LConfigs ==
    UNION { { [n |-> n, adj |-> AdjOf(n, par)] :
                par \in {q \in TreeShapes(n) : IsShape(q)} } : n \in 1..LMaxN }

\* The constructor: logN = static_cast<int>(std::log2(n)) + 1, up filled
\* with -1, depth with 0.
LCA(adjacency_list) ==
    LET n    == Cardinality(DOMAIN adjacency_list)
        logN == (BitLen(n) - 1) + 1
    IN [adj   |-> adjacency_list,
        n     |-> n,
        logN  |-> logN,
        up    |-> [x \in 0..(n - 1) |-> [j \in 0..(logN - 1) |-> -1]],
        depth |-> [x \in 0..(n - 1) |-> 0]]

\* for (j = 1; j < logN; ++j) if (up[node][j-1] != -1) up[node][j] = ...
RECURSIVE FillUp(_, _, _)
FillUp(l, node, j) ==
    IF j >= l.logN THEN l
    ELSE IF l.up[node][j - 1] # -1
         THEN FillUp([l EXCEPT !.up[node][j] = l.up[l.up[node][j - 1]][j - 1]],
                     node, j + 1)
         ELSE FillUp(l, node, j + 1)

\* dfs(node, parent); Neighbors(l, node, parent, i) is its loop over
\* adj[node] from the i-th neighbor on.
RECURSIVE dfs(_, _, _)
RECURSIVE Neighbors(_, _, _, _)
dfs(l, node, parent) ==
    Neighbors(FillUp([l EXCEPT !.up[node][0] = parent], node, 1), node, parent, 1)

Neighbors(l, node, parent, i) ==
    IF i > Len(l.adj[node]) THEN l
    ELSE LET neighbor == l.adj[node][i]
         IN IF neighbor = parent
            THEN Neighbors(l, node, parent, i + 1)
            ELSE Neighbors(dfs([l EXCEPT !.depth[neighbor] = l.depth[node] + 1],
                               neighbor, node),
                           node, parent, i + 1)

\* k & (1 << j)
Bit(k, j) == (k \div Pow2(j)) % 2 = 1

\* The loop of kthAncestor from j on.
RECURSIVE Climb(_, _, _, _)
Climb(l, node, k, j) ==
    IF j < l.logN /\ node # -1
    THEN Climb(l, IF Bit(k, j) THEN l.up[node][j] ELSE node, k, j + 1)
    ELSE node

kthAncestor(l, node, k) == Climb(l, node, k, 0)

LInit ==
    /\ lcfg \in LConfigs
    /\ lca = LCA(lcfg.adj)
    /\ lroot = -1
    /\ llast = [kind |-> "none", node |-> 0, k |-> 0, res |-> 0]

\* preprocess(root), called once.
LPreprocess(root) ==
    /\ lroot = -1
    /\ lca' = dfs(lca, root, -1)
    /\ lroot' = root
    /\ llast' = [kind |-> "preprocess", node |-> root, k |-> 0, res |-> 0]
    /\ UNCHANGED lcfg
    /\ UNCHANGED <<dvars, svars, tvars, hvars, uvars>>

LKthAncestor(node, k) ==
    /\ lroot # -1
    /\ llast' = [kind |-> "kthAncestor", node |-> node, k |-> k,
                 res |-> kthAncestor(lca, node, k)]
    /\ UNCHANGED <<lcfg, lca, lroot>>
    /\ UNCHANGED <<dvars, svars, tvars, hvars, uvars>>

LNext ==
    \/ \E r \in 0..(lca.n - 1) : LPreprocess(r)
    \/ \E node \in 0..(lca.n - 1), k \in 0..LMaxK : LKthAncestor(node, k)

LiftInit == LInit /\ DIdle /\ SIdle /\ TIdle /\ HIdle /\ UIdle

SpecLift == LiftInit /\ [][LNext]_vars

\* The nodes of the tree path from x to y, x first: found by walking the
\* adjacency list, never entering a node twice.
RECURSIVE PathFrom(_, _, _, _)
PathFrom(adj, x, y, seen) ==
    IF x = y THEN <<x>>
    ELSE LET next == {z \in {adj[x][i] : i \in DOMAIN adj[x]} \ seen :
                         PathFrom(adj, z, y, seen \cup {x}) # <<>>}
         IN IF next = {} THEN <<>>
            ELSE <<x>> \o PathFrom(adj, CHOOSE z \in next : TRUE, y, seen \cup {x})

\* The ancestor k levels above node in the tree rooted at root, -1 when the
\* node is less than k levels deep.
Ancestor(adj, root, node, k) ==
    LET path == PathFrom(adj, node, root, {})
    IN IF k < Len(path) THEN path[k + 1] ELSE -1

\* C16: after preprocess(root), for every node and every k >= 0 (k larger
\* than n included) kthAncestor(node, k) returns the ancestor exactly k levels
\* above node when k <= depth[node], and -1 when k > depth[node].
C16_KthAncestor ==
    llast.kind = "kthAncestor" =>
        /\ lca.depth[llast.node] = Len(PathFrom(lcfg.adj, llast.node, lroot, {})) - 1
        /\ llast.res = Ancestor(lcfg.adj, lroot, llast.node, llast.k)

\* ------------------------------------------------------------------------
\* Point-update segment tree: SegmentTree (src/unnamed/part_003), the tree
\* underneath the heavy-light decomposition
\* ------------------------------------------------------------------------

\* The README's instantiation of HLD: op is +, update adds v, T{} is 0.
HOp(a, b) == a + b

HUpdate(curval, v) == curval + v

HIdentity == 0

\* SegmentTree(size, identity)
SegmentTree(size, identity) ==
    [size_ |-> size, identity_ |-> identity,
     tree_ |-> [i \in 0..(2 * size - 1) |-> identity]]

\* The while loop of SegmentTree::Query.
RECURSIVE SegQueryLoop(_, _, _, _, _)
SegQueryLoop(t, left, right, left_result, right_result) ==
    IF left < right
    THEN LET lr == IF left % 2 = 1 THEN HOp(left_result, t.tree_[left])
                   ELSE left_result
             l1 == IF left % 2 = 1 THEN left + 1 ELSE left
             r1 == IF right % 2 = 1 THEN right - 1 ELSE right
             rr == IF right % 2 = 1 THEN HOp(t.tree_[r1], right_result)
                   ELSE right_result
         IN SegQueryLoop(t, l1 \div 2, r1 \div 2, lr, rr)
    ELSE HOp(left_result, right_result)

\* SegmentTree::Query(left, right): op over the half-open [left, right).
SegQuery(t, left, right) ==
    SegQueryLoop(t, left + t.size_, right + t.size_, t.identity_, t.identity_)

RECURSIVE SegPullUp(_, _)
SegPullUp(t, pos) ==
    IF pos > 0
    THEN SegPullUp([t EXCEPT !.tree_[pos] =
                        HOp(t.tree_[2 * pos], t.tree_[2 * pos + 1])],
                   pos \div 2)
    ELSE t

\* SegmentTree::Update(pos, value)
SegUpdate(t, pos, value) ==
    SegPullUp([t EXCEPT !.tree_[pos + t.size_] = HUpdate(@, value)],
              (pos + t.size_) \div 2)

\* The three-argument Update(left, right, value) the decomposition calls:
\* update applied to every index of the half-open [left, right).
RECURSIVE SegUpdateRange(_, _, _, _)
SegUpdateRange(t, left, right, value) ==
    IF left >= right THEN t
    ELSE SegUpdateRange(SegUpdate(t, left, value), left + 1, right, value)

\* ------------------------------------------------------------------------
\* Heavy-light decomposition: HLD (src/Algorithms/HLD/HLD.cpp)
\* ------------------------------------------------------------------------

\* Largest number of nodes of a tree in the general configurations.
HMaxN == 4

\* swap(child, adj[cur][0]), child being adj[cur][i] (1-based here).
SwapFirst(seq, i) == [seq EXCEPT ![1] = seq[i], ![i] = seq[1]]

\* DFS_Size(cur, par); SizeLoop is its loop over adj[cur] from the i-th
\* neighbor on.
RECURSIVE DFS_Size(_, _, _)
RECURSIVE SizeLoop(_, _, _, _)
DFS_Size(h, cur, par) == SizeLoop(h, cur, par, 1)

SizeLoop(h, cur, par, i) ==
    IF i > Len(h.adj[cur]) THEN h
    ELSE LET child == h.adj[cur][i]
         IN IF child = par
            THEN SizeLoop(h, cur, par, i + 1)
            ELSE LET h1 == DFS_Size([h EXCEPT !.depth[child] = h.depth[cur] + 1,
                                              !.parent[child] = cur],
                                    child, cur)
                     h2 == [h1 EXCEPT !.size[cur] = @ + h1.size[child]]
                     h3 == IF h2.size[child] > h2.size[h2.adj[cur][1]]
                           THEN [h2 EXCEPT !.adj[cur] = SwapFirst(@, i)]
                           ELSE h2
                 IN SizeLoop(h3, cur, par, i + 1)

\* DFS_HLD(cur, par); ChainLoop is its loop over adj[cur].
RECURSIVE DFS_HLD(_, _, _)
RECURSIVE ChainLoop(_, _, _, _)
DFS_HLD(h, cur, par) ==
    ChainLoop([h EXCEPT !.preorder[cur] = h.counter, !.counter = h.counter + 1],
              cur, par, 1)

ChainLoop(h, cur, par, i) ==
    IF i > Len(h.adj[cur]) THEN h
    ELSE LET child == h.adj[cur][i]
         IN IF child = par
            THEN ChainLoop(h, cur, par, i + 1)
            ELSE ChainLoop(
                     DFS_HLD([h EXCEPT !.nxt[child] =
                                  IF child = h.adj[cur][1] THEN h.nxt[cur]
                                  ELSE child],
                             child, cur),
                     cur, par, i + 1)

\* The constructor: n is adjList.size() (one more than the number of nodes,
\* index 0 being unused), the vectors have n + 1 entries, the segment tree
\* n + 1 elements T{}; the root is node 1.
HLD(adjList) ==
    LET n  == Cardinality(DOMAIN adjList)
        h0 == [adj      |-> adjList,
               n        |-> n,
               counter  |-> 1,
               size     |-> [x \in 0..n |-> 1],
               preorder |-> [x \in 0..n |-> 0],
               nxt      |-> [x \in 0..n |-> IF x = 1 THEN 1 ELSE 0],
               parent   |-> [x \in 0..n |-> IF x = 1 THEN 1 ELSE 0],
               depth    |-> [x \in 0..n |-> 0],
               segTree  |-> SegmentTree(n + 1, HIdentity)]
    IN DFS_HLD(DFS_Size(h0, 1, 0), 1, 0)

\* The intervals <<left, right>> that UpdatePath and QueryPath pass to the
\* segment tree for the path between u and v, in call order.
RECURSIVE PathIntervals(_, _, _, _)
PathIntervals(h, u, v, ivs) ==
    IF h.nxt[u] # h.nxt[v]
    THEN LET swap == h.depth[h.nxt[u]] < h.depth[h.nxt[v]]
             u1   == IF swap THEN v ELSE u
             v1   == IF swap THEN u ELSE v
         IN PathIntervals(h, h.parent[h.nxt[u1]], v1,
                Append(ivs, <<h.preorder[h.nxt[u1]], h.preorder[u1]>>))
    ELSE LET swap == h.preorder[u] > h.preorder[v]
             u1   == IF swap THEN v ELSE u
             v1   == IF swap THEN u ELSE v
         IN Append(ivs, <<h.preorder[u1], h.preorder[v1]>>)

\* result = op(result, segTree.Query(left, right)) over the intervals.
RECURSIVE QueryIntervals(_, _, _, _)
QueryIntervals(t, ivs, k, result) ==
    IF k > Len(ivs) THEN result
    ELSE QueryIntervals(t, ivs, k + 1,
                        HOp(result, SegQuery(t, ivs[k][1], ivs[k][2])))

\* segTree.Update(left, right, value) over the intervals.
RECURSIVE UpdateIntervals(_, _, _, _)
UpdateIntervals(t, ivs, k, value) ==
    IF k > Len(ivs) THEN t
    ELSE UpdateIntervals(SegUpdateRange(t, ivs[k][1], ivs[k][2], value),
                         ivs, k + 1, value)

QueryPath(h, u, v) ==
    QueryIntervals(h.segTree, PathIntervals(h, u, v, <<>>), 1, HIdentity)

UpdatePath(h, u, v, value) ==
    [h EXCEPT !.segTree =
         UpdateIntervals(h.segTree, PathIntervals(h, u, v, <<>>), 1, value)]

\* The adjacency list (1-based, entry 0 empty) of the tree on 1..n in which
\* node i > 1 is joined to par[i] < i; neighbors ascending or descending.
Reverse(seq) == [i \in 1..Len(seq) |-> seq[Len(seq) + 1 - i]]

HAdjOf(n, par, order) ==
    [x \in 0..n |->
        LET nb == Sorted({y \in 1..n :
                              \/ (y \in DOMAIN par /\ par[y] = x)
                              \/ (x \in DOMAIN par /\ par[x] = y)})
        IN IF order = "asc" THEN nb ELSE Reverse(nb)]

HQ(u, v) == [kind |-> "QueryPath", u |-> u, v |-> v, value |-> 0]

HU(u, v, value) == [kind |-> "UpdatePath", u |-> u, v |-> v, value |-> value]

\* The README's tree and usage.
HReadmeAdj == (0 :> <<>>) @@ (1 :> <<2, 3>>) @@ (2 :> <<1, 4>>)
              @@ (3 :> <<1, 5>>) @@ (4 :> <<2>>) @@ (5 :> <<3>>)

HReadmeScript ==
    << HU(1, 1, 1), HU(2, 2, 2), HU(3, 3, 3), HU(4, 4, 4), HU(5, 5, 5),
       HQ(2, 5), HU(2, 5, 10), HQ(2, 5), HQ(2, 2) >>

HConfigs ==
    UNION { { [n |-> n, adj |-> HAdjOf(n, par, o), script |-> NoScript] :
                par \in {q \in [2..n -> 1..n] : \A i \in 2..n : q[i] < i},
                o \in {"asc", "desc"} } : n \in 1..HMaxN }
    \cup { [n |-> 5, adj |-> HReadmeAdj, script |-> HReadmeScript] }

\* The calls a configuration offers.
HCalls(c) ==
    IF c.script = NoScript
    THEN {HQ(u, v) : u \in 1..c.n, v \in 1..c.n}
         \cup {HU(u, v, 10) : u \in 1..c.n, v \in 1..c.n}
    ELSE {c.script[i] : i \in DOMAIN c.script}

HMayCall(call) ==
    IF hcfg.script = NoScript
    THEN hstep < MaxOps
    ELSE hstep < Len(hcfg.script) /\ hcfg.script[hstep + 1] = call

\* The nodes of the tree path between u and v.
HPath(u, v) == PathFrom(hcfg.adj, u, v, {})

OnPath(x, u, v) == \E k \in DOMAIN HPath(u, v) : HPath(u, v)[k] = x

HInit ==
    /\ hcfg \in HConfigs
    /\ hld = HLD(hcfg.adj)
    /\ href = [x \in 1..hcfg.n |-> HIdentity]
    /\ hlast = [kind |-> "none", u |-> 0, v |-> 0, value |-> 0, res |-> 0,
                ivs |-> <<>>]
    /\ hstep = 0

HQueryPath(call) ==
    /\ call.kind = "QueryPath"
    /\ HMayCall(call)
    /\ hlast' = [kind |-> "QueryPath", u |-> call.u, v |-> call.v, value |-> 0,
                 res |-> QueryPath(hld, call.u, call.v),
                 ivs |-> PathIntervals(hld, call.u, call.v, <<>>)]
    /\ hstep' = hstep + 1
    /\ UNCHANGED <<hcfg, hld, href>>
    /\ UNCHANGED <<dvars, svars, tvars, lvars, uvars>>

HUpdatePath(call) ==
    /\ call.kind = "UpdatePath"
    /\ HMayCall(call)
    /\ hld' = UpdatePath(hld, call.u, call.v, call.value)
    /\ href' = [x \in 1..hcfg.n |->
                    IF OnPath(x, call.u, call.v)
                    THEN HUpdate(href[x], call.value) ELSE href[x]]
    /\ hlast' = [kind |-> "UpdatePath", u |-> call.u, v |-> call.v,
                 value |-> call.value, res |-> 0,
                 ivs |-> PathIntervals(hld, call.u, call.v, <<>>)]
    /\ hstep' = hstep + 1
    /\ UNCHANGED hcfg
    /\ UNCHANGED <<dvars, svars, tvars, lvars, uvars>>

HNext ==
    \E call \in HCalls(hcfg) :
        \/ HQueryPath(call)
        \/ HUpdatePath(call)

PathInit == HInit /\ DIdle /\ SIdle /\ TIdle /\ LIdle /\ UIdle

SpecPath == PathInit /\ [][HNext]_vars

\* How many of the intervals, read as half-open [left, right), hold index i.
Covered(ivs, i) ==
    Cardinality({k \in DOMAIN ivs : ivs[k][1] <= i /\ i < ivs[k][2]})

RECURSIVE SumOver(_, _)
SumOver(f, path) ==
    IF path = <<>> THEN HIdentity
    ELSE HOp(f[Head(path)], SumOver(f, Tail(path)))

\* C17: the intervals QueryPath(u,v) and UpdatePath(u,v,x) pass to the
\* segment tree, read as half-open [left,right), cover the preorder numbers
\* of exactly the nodes on the tree path from u to v, each exactly once; so
\* QueryPath returns op over exactly the path's node values.  In the README's
\* usage QueryPath(2,5) = 11 after the five assignments and QueryPath(2,2) =
\* 12 after UpdatePath(2,5,10).
C17_PathCoverage ==
    hlast.kind \in {"QueryPath", "UpdatePath"} =>
        /\ \A i \in 0..hld.n :
               Covered(hlast.ivs, i) =
                   IF \E x \in 1..hcfg.n :
                          OnPath(x, hlast.u, hlast.v) /\ hld.preorder[x] = i
                   THEN 1 ELSE 0
        /\ hlast.kind = "QueryPath" =>
               hlast.res = SumOver(href, HPath(hlast.u, hlast.v))
        /\ (hcfg.script = HReadmeScript /\ hstep = 6) => hlast.res = 11
        /\ (hcfg.script = HReadmeScript /\ hstep = 9) => hlast.res = 12

\* ------------------------------------------------------------------------
\* Union-find: DisjointSetUnion
\* (src/Data Structures/DisjointSetUnion/DisjointSetUnion.cpp)
\* ------------------------------------------------------------------------

\* Largest number of elements.
UMaxN == 4

\* DisjointSetUnion(n)
DisjointSetUnion(n) ==
    [n |-> n, set_count |-> n, dsu |-> [x \in 0..(n - 1) |-> -1]]

\* root(x): the object after the call and the value returned.  Every
\* element on the way is made to point at the root.
RECURSIVE root(_, _)
root(s, x) ==
    IF s.dsu[x] < 0
    THEN [s |-> s, res |-> x]
    ELSE LET up == root(s, s.dsu[x])
         IN [s |-> [up.s EXCEPT !.dsu[x] = up.res], res |-> up.res]

\* join that decrements set_count on every call.
joinAlwaysCounts(s, x, y) ==
    LET rx == root(s, x)
        ry == root(rx.s, y)
        s2 == ry.s
    IN IF rx.res = ry.res THEN [s2 EXCEPT !.set_count = @ - 1]
       ELSE LET swap == s2.dsu[rx.res] < s2.dsu[ry.res]
                x1   == IF swap THEN ry.res ELSE rx.res
                y1   == IF swap THEN rx.res ELSE ry.res
            IN [s2 EXCEPT !.dsu[y1] = s2.dsu[y1] + s2.dsu[x1],
                          !.dsu[x1] = y1,
                          !.set_count = @ - 1]

\* join(x, y)
join(s, x, y) ==
    LET rx == root(s, x)
        ry == root(rx.s, y)
        s2 == ry.s
    IN IF rx.res = ry.res THEN s2
       ELSE LET swap == s2.dsu[rx.res] < s2.dsu[ry.res]
                x1   == IF swap THEN ry.res ELSE rx.res
                y1   == IF swap THEN rx.res ELSE ry.res
            IN [s2 EXCEPT !.dsu[y1] = s2.dsu[y1] + s2.dsu[x1],
                          !.dsu[x1] = y1,
                          !.set_count = @ - 1]

\* query(x, y)
query(s, x, y) ==
    LET rx == root(s, x)
        ry == root(rx.s, y)
    IN [s |-> ry.s, res |-> rx.res = ry.res]

\* size(x)
size(s, x) ==
    LET rx == root(s, x)
    IN [s |-> rx.s, res |-> -rx.s.dsu[rx.res]]

\* count()
count(s) == s.set_count

\* The class of x in a partition.
ClassOf(classes, x) == CHOOSE c \in classes : x \in c

\* The partition after x and y are put in one class.
Merge(classes, x, y) ==
    (classes \ {ClassOf(classes, x), ClassOf(classes, y)})
        \cup {ClassOf(classes, x) \cup ClassOf(classes, y)}

UInit ==
    /\ ucfg \in {[n |-> n] : n \in 1..UMaxN}
    /\ set = DisjointSetUnion(ucfg.n)
    /\ uref = [classes |-> {{x} : x \in 0..(ucfg.n - 1)}, merges |-> 0,
               compressed |-> FALSE, idle |-> FALSE]
    /\ ulast = [kind |-> "none", x |-> 0, y |-> 0, res |-> 0]

\* Reference bookkeeping of a call that leaves object s behind.
UBook(s) ==
    [uref EXCEPT !.compressed = @ \/ \E x \in DOMAIN s.dsu :
                                       set.dsu[x] >= 0 /\ s.dsu[x] # set.dsu[x]]

URoot(x) ==
    /\ set' = root(set, x).s
    /\ ulast' = [kind |-> "root", x |-> x, y |-> 0, res |-> root(set, x).res]
    /\ uref' = UBook(set')
    /\ UNCHANGED ucfg
    /\ UNCHANGED <<dvars, svars, tvars, lvars, hvars>>

UJoin(x, y) ==
    /\ set' = join(set, x, y)
    /\ ulast' = [kind |-> "join", x |-> x, y |-> y, res |-> 0]
    /\ uref' = [UBook(set') EXCEPT
                    !.classes = Merge(@, x, y),
                    !.merges = IF ClassOf(uref.classes, x) = ClassOf(uref.classes, y)
                               THEN @ ELSE @ + 1,
                    !.idle = @ \/ ClassOf(uref.classes, x) = ClassOf(uref.classes, y)]
    /\ UNCHANGED ucfg
    /\ UNCHANGED <<dvars, svars, tvars, lvars, hvars>>

UQuery(x, y) ==
    /\ set' = query(set, x, y).s
    /\ ulast' = [kind |-> "query", x |-> x, y |-> y, res |-> query(set, x, y).res]
    /\ uref' = UBook(set')
    /\ UNCHANGED ucfg
    /\ UNCHANGED <<dvars, svars, tvars, lvars, hvars>>

USize(x) ==
    /\ set' = size(set, x).s
    /\ ulast' = [kind |-> "size", x |-> x, y |-> 0, res |-> size(set, x).res]
    /\ uref' = UBook(set')
    /\ UNCHANGED ucfg
    /\ UNCHANGED <<dvars, svars, tvars, lvars, hvars>>

UCount ==
    /\ ulast' = [kind |-> "count", x |-> 0, y |-> 0, res |-> count(set)]
    /\ UNCHANGED <<ucfg, set, uref>>
    /\ UNCHANGED <<dvars, svars, tvars, lvars, hvars>>

UNext ==
    \/ \E x \in 0..(set.n - 1) : URoot(x)
    \/ \E x \in 0..(set.n - 1), y \in 0..(set.n - 1) : UJoin(x, y)
    \/ \E x \in 0..(set.n - 1), y \in 0..(set.n - 1) : UQuery(x, y)
    \/ \E x \in 0..(set.n - 1) : USize(x)
    \/ UCount

UnionInit == UInit /\ DIdle /\ SIdle /\ TIdle /\ LIdle /\ HIdle

SpecUnion == UnionInit /\ [][UNext]_vars

\* C18: after any sequence of join calls on n elements, interleaved in any
\* order with root, query and size calls (which compress paths), count()
\* equals the number of classes of the partition of {0..n-1} the joins
\* generate: n minus the number of joins that merged two distinct sets.
C18_CountIsNumberOfClasses ==
    /\ count(set) = Cardinality(uref.classes)
    /\ count(set) = ucfg.n - uref.merges
    /\ ulast.kind = "count" => ulast.res = Cardinality(uref.classes)

\* C18 witness: count() has just returned 1 on four elements after three
\* joins that merged, a join within one set, and a call that compressed a
\* path.
C18_Witness ==
    /\ ulast.kind = "count"
    /\ ulast.res = 1
    /\ ucfg.n = 4
    /\ uref.merges = 3
    /\ uref.idle
    /\ uref.compressed

\* ------------------------------------------------------------------------
\* Dense tree: the tags on the boundary paths
\* ------------------------------------------------------------------------

\* The strict ancestors of the leaf of element index i (slot i + N), up to
\* and including the root, slot 1.
StrictAncestors(i) ==
    {Shr(i + size_, k) : k \in 1..BitLen(i + size_)} \ {0}

\* The ancestors of the two boundary leaves of [l, r).
BoundaryAncestors(l, r) == StrictAncestors(l) \cup StrictAncestors(r - 1)

\* The tags as they are when Update first applies its value: Update writes
\* nothing before that (it only offsets left and right), so they are the
\* tags from before the call.
TagsAtFirstWrite == dprev.lazy

\* C19: in Update(left,right,u) with 0 <= left < right <= N, at the moment u
\* is first applied to an aggregate or tag slot, every strict ancestor of
\* leaf left and of leaf right-1 holds the tag idUpd.
C19_UpdatePushesBeforeWriting ==
    (dlast.kind = "Update" /\ dlast.l < dlast.r) =>
        \A i \in BoundaryAncestors(dlast.l, dlast.r) :
            TagsAtFirstWrite[i] = identityUpdate_

\* Trees made by the constructor with a given size, every element idOp,
\* under algebras whose updates leave idOp in range: plain sums, and one
\* with a non-commutative op.
SizedAlgs == {"SumAdd", "CatAdd"}

SizedConfigs ==
    { [alg |-> a, ctor |-> "size", n |-> n,
       arr |-> [i \in 1..n |-> IdOp(a)], script |-> NoScript]
        : a \in SizedAlgs, n \in 1..MaxN }

\* The same sizes and algebras under both constructors.
CtorConfigs ==
    { [alg |-> a, ctor |-> "range", n |-> n,
       arr |-> [i \in 1..n |-> Elem(a, InitVals[i])], script |-> NoScript]
        : a \in SizedAlgs, n \in 1..MaxN }
    \cup SizedConfigs

\* The dense tree made by either constructor.
DCtorsInit ==
    /\ dcfg \in CtorConfigs
    /\ LET t == Construct(dcfg)
       IN /\ size_ = t.size
          /\ LOG_ = t.LOG
          /\ tree_ = t.tree
          /\ lazy_ = t.lazy
          /\ dref = [i \in 0..(t.size - 1) |-> t.tree[t.size + i]]
          /\ dprev = [tree |-> t.tree, lazy |-> t.lazy]
    /\ dlast = [kind |-> "none", l |-> 0, r |-> 0, u |-> IdUpd(dcfg.alg),
                res |-> IdOp(dcfg.alg), accT |-> {}, accL |-> {}]
    /\ dnops = 0
    /\ dstep = 0
    /\ dseen = [upd |-> FALSE, empty |-> FALSE]
    /\ dtwin = NoTwin

DenseCtorsInit == DCtorsInit /\ SIdle /\ OIdle

SpecDenseCtors == DenseCtorsInit /\ [][DNext]_vars

\* C20: for a tree built by either constructor, every N >= 1 and every
\* reachable state: when Query(left,right) with 0 <= left < right <= N starts
\* its accumulation loop, every strict ancestor of leaf left and of leaf
\* right-1, the root included, has the tag idUpd.  (The loop and the final
\* combine write no tag, so the tags at the start of the loop are those the
\* call leaves behind.)
C20_QueryClearsBoundaryPaths ==
    (dlast.kind = "Query" /\ dlast.l < dlast.r) =>
        \A i \in BoundaryAncestors(dlast.l, dlast.r) :
            lazy_[i] = identityUpdate_

\* C20 witness: on a tree made by the size constructor a Query over a
\* non-empty range has found a tag pending at the root and on a node below
\* it or beside it, and has left every ancestor of its boundary leaves
\* without one.
C20_Witness ==
    /\ dcfg.ctor = "size"
    /\ size_ >= 2
    /\ dlast.kind = "Query"
    /\ dlast.l < dlast.r
    /\ dprev.lazy[1] # identityUpdate_
    /\ lazy_[1] = identityUpdate_
    /\ \A i \in BoundaryAncestors(dlast.l, dlast.r) : lazy_[i] = identityUpdate_

\* ------------------------------------------------------------------------
\* Dense tree: consistency of the stored aggregates
\* ------------------------------------------------------------------------

\* Node i of the vectors tree and lazy holds the combine of its two children
\* with its own tag applied.
NodeConsistent(tree, lazy, i) ==
    tree[i] = UpdVal(dcfg.alg, Op(dcfg.alg, tree[2 * i], tree[2 * i + 1]), lazy[i])

\* C21 (as claimed): after every completed Update or Query with
\* 0 <= left <= right <= N, every internal node i in [1, N) satisfies
\* tree_[i] = updVal(op(tree_[2i], tree_[2i+1]), lazy_[i]).
C21_DenseNodeConsistency ==
    dcfg.alg \in ContractAlgs =>
        \A i \in 1..(size_ - 1) : NodeConsistent(tree_, lazy_, i)

\* The algebras whose updates commute (all but assignment).
CommutingAlgs == DenseAlgs \ {"MinAssign"}

\* C22: for an algebra whose updates commute and any sequence of Update and
\* Query calls with 0 <= l < r <= N, every element as Query(i, i+1) shows it
\* is the initial element with each earlier Update covering i applied exactly
\* once (the reference array), although recalculate_after_update re-applies
\* tags that are still pending.
C22_EachUpdateAppliedOnce ==
    (DOnlyNonEmpty /\ dcfg.alg \in CommutingAlgs) =>
        /\ DLogical = dref
        /\ (dlast.kind = "Query" /\ dlast.r = dlast.l + 1) => dlast.res = dref[dlast.l]

\* C22 witness: on [3,1,4,2] under min/add, Update(0,1,10) ran below the tag
\* an earlier Update(0,4,10) left pending on the root; recalculation
\* re-applied that tag, and element 0 shows 23, element 1 shows 11.
C22_Witness ==
    /\ dcfg.alg = "MinAdd" /\ size_ = 4 /\ DOnlyNonEmpty
    /\ dlast.kind = "Update" /\ dlast.l = 0 /\ dlast.r = 1
    /\ dprev.lazy[1] = 10 /\ lazy_[1] = 10
    /\ DLogical[0] = 23 /\ DLogical[1] = 11

\* ------------------------------------------------------------------------
\* Sparse tree: which nodes a call enters and changes
\* ------------------------------------------------------------------------

\* [l, r] covers the whole range of node n.
Covers(l, r, n) == l <= n.start_ /\ n.end_ <= r

\* Node d lies below node p (the children split their parent's range, so a
\* deeper node inside p's range is a descendant of p).
Below(h, d, p) ==
    /\ h.nodes[d].depth_ > h.nodes[p].depth_
    /\ h.nodes[p].start_ <= h.nodes[d].start_
    /\ h.nodes[d].end_ <= h.nodes[p].end_

\* C23: when the range of an Update or Query covers a node's [start, end],
\* the call enters no descendant of the node, changes none, and gives the
\* node no child; Update(start, end, u) or Query(start, end) as the first call
\* on a tree allocates nothing, and the Update changes only the root's
\* aggregate and tag.
C23_CoveredNodesNotDescended ==
    slast.kind \in {"Query", "Update"} =>
        /\ \A p \in DOMAIN heap.nodes :
              Covers(slast.l, slast.r, heap.nodes[p]) =>
                  /\ heap.nodes[p].left_ =
                        (IF p \in DOMAIN sprev.nodes THEN sprev.nodes[p].left_ ELSE nullptr)
                  /\ heap.nodes[p].right_ =
                        (IF p \in DOMAIN sprev.nodes THEN sprev.nodes[p].right_ ELSE nullptr)
                  /\ \A d \in DOMAIN heap.nodes :
                        Below(heap, d, p) =>
                            /\ d \notin heap.seen
                            /\ d \in DOMAIN sprev.nodes
                            /\ heap.nodes[d] = sprev.nodes[d]
        /\ (snops = 1 /\ slast.l = scfg.start /\ slast.r = scfg.end) =>
              /\ heap.next = 1
              /\ heap.seen = {Root}
              /\ slast.kind = "Query" => heap.nodes = sprev.nodes
              /\ slast.kind = "Update" =>
                    heap.nodes[Root] =
                        [sprev.nodes[Root] EXCEPT
                            !.value_ = heap.nodes[Root].value_,
                            !.lazy_ = heap.nodes[Root].lazy_]

\* C23 witness: an Update covered a node that already had children; the call
\* entered the node, left its tag on it and entered neither child.
C23_Witness ==
    /\ slast.kind = "Update"
    /\ \E p \in DOMAIN heap.nodes :
          /\ Covers(slast.l, slast.r, heap.nodes[p])
          /\ p \in heap.seen
          /\ heap.nodes[p].left_ # nullptr
          /\ heap.nodes[p].lazy_ = slast.u
          /\ heap.nodes[p].left_ \notin heap.seen
          /\ heap.nodes[p].right_ \notin heap.seen

\* Node p had no child before the last call.
ChildlessBefore(p) ==
    p \notin DOMAIN sprev.nodes \/ sprev.nodes[p].left_ = nullptr

\* No node whose range holds the range of node x held a tag before the last
\* call.
NoTagAbove(x) ==
    \A a \in DOMAIN sprev.nodes :
        Covers(sprev.nodes[a].start_, sprev.nodes[a].end_, heap.nodes[x]) =>
            sprev.nodes[a].lazy_ = SIdUpd(scfg.alg)

\* C24: absent allocation failure and until the root is destroyed, every
\* node has both children or neither; the children cover [start, mid] and
\* [mid+1, end]; children appear only under a node that had none and whose
\* range the call overlaps partly (where Propagate runs), two at a time, and
\* are created holding idOp and idUpd; child references that exist are never
\* replaced or reset, nothing is freed, and the set of nodes only grows.
C24_PairedOneShotMaterialization ==
    (~heap.threw /\ ~heap.dead) =>
        /\ \A p \in DOMAIN heap.nodes :
              LET n == heap.nodes[p]
              IN /\ (n.left_ = nullptr) <=> (n.right_ = nullptr)
                 /\ n.left_ # nullptr =>
                       /\ heap.nodes[n.left_].start_ = n.start_
                       /\ heap.nodes[n.left_].end_ = Half(n.start_ + n.end_)
                       /\ heap.nodes[n.right_].start_ = Half(n.start_ + n.end_) + 1
                       /\ heap.nodes[n.right_].end_ = n.end_
        /\ heap.freed = <<>>
        /\ DOMAIN sprev.nodes \subseteq DOMAIN heap.nodes
        /\ \A p \in DOMAIN sprev.nodes :
              sprev.nodes[p].left_ # nullptr =>
                  /\ heap.nodes[p].left_ = sprev.nodes[p].left_
                  /\ heap.nodes[p].right_ = sprev.nodes[p].right_
        /\ \A x \in NewIds :
              LET n == heap.nodes[x]
                  p == ParentOf(x)
              IN /\ ChildlessBefore(p)
                 /\ p \in heap.seen
                 /\ SPartial(heap.nodes[p], slast.l, slast.r)
                 /\ NoTagAbove(x) =>
                       IF slast.kind = "Update" /\ Covers(slast.l, slast.r, n)
                       THEN LET y == SUpdLazy(scfg.alg, SIdUpd(scfg.alg), SIdOp(scfg.alg),
                                              slast.u, n.start_, n.end_)
                            IN n.value_ = y.val /\ n.lazy_ = y.lazy
                       ELSE /\ n.lazy_ = SIdUpd(scfg.alg)
                            /\ (slast.kind = "Query" \/ ~SPartial(n, slast.l, slast.r)) =>
                                  n.value_ = SIdOp(scfg.alg)
        /\ heap.next - sprev.next =
              2 * Cardinality({p \in DOMAIN heap.nodes :
                                  ChildlessBefore(p) /\ heap.nodes[p].left_ # nullptr})

\* C24 witness: a call that returned gave children to a node that had none,
\* below a node that keeps the two children it had before the call.
C24_Witness ==
    /\ ~heap.threw /\ ~heap.dead
    /\ slast.kind \in {"Query", "Update"}
    /\ \E p \in DOMAIN sprev.nodes :
          /\ sprev.nodes[p].left_ # nullptr
          /\ heap.nodes[p].left_ = sprev.nodes[p].left_
          /\ heap.nodes[p].right_ = sprev.nodes[p].right_
          /\ heap.nodes[p].left_ \notin NewIds
          /\ \E c \in {heap.nodes[p].left_, heap.nodes[p].right_} :
                /\ sprev.nodes[c].left_ = nullptr
                /\ heap.nodes[c].left_ \in NewIds
                /\ heap.nodes[c].right_ \in NewIds

\* applyUpdate on the aggregate val of node n: what updLazy makes of it for
\* the update tag; the identity update changes nothing (the tree never calls
\* updLazy with it).
SApply(alg, val, tag, n) ==
    IF tag = SIdUpd(alg)
    THEN val
    ELSE SUpdLazy(alg, SIdUpd(alg), val, tag, n.start_, n.end_).val

\* op(left_->value_, right_->value_) of node n in heap h.
ChildrenOp(h, n) ==
    SOp(scfg.alg, h.nodes[n.left_].value_, h.nodes[n.right_].value_)

\* C25: under every algebra whose updLazy applies the update to the
\* aggregate and composes it into the tag, after every completed Update or
\* Query every node with materialized children holds
\* value_ = applyUpdate(op(left.value_, right.value_), lazy_); every node an
\* Update overlapped partly holds the tag idUpd and the aggregate
\* op(left.value_, right.value_).
C25_SparseNodeConsistency ==
  scfg.alg \in SContractAlgs =>
    /\ \A p \in DOMAIN heap.nodes :
          LET n == heap.nodes[p]
          IN n.left_ # nullptr =>
                n.value_ = SApply(scfg.alg, ChildrenOp(heap, n), n.lazy_, n)
    /\ slast.kind = "Update" =>
          \A p \in heap.seen :
              LET n == heap.nodes[p]
              IN SPartial(n, slast.l, slast.r) =>
                    /\ n.lazy_ = SIdUpd(scfg.alg)
                    /\ n.value_ = ChildrenOp(heap, n)

\* C25 witness: after Update(0,2,7) and Update(1,3,8) on [0,3], the node
\* [2,3] has children and holds the tag 8, and the root, which the Update
\* overlapped partly, holds an aggregate other than idOp.
C25_Witness ==
    /\ scfg.script = AssignScript /\ sstep = 2
    /\ slast.kind = "Update"
    /\ \E p \in DOMAIN heap.nodes :
          /\ heap.nodes[p].left_ # nullptr
          /\ heap.nodes[p].lazy_ = 8
          /\ heap.nodes[p].start_ = 2
    /\ Root \in heap.seen
    /\ SPartial(heap.nodes[Root], slast.l, slast.r)
    /\ heap.nodes[Root].value_ # SIdOp(scfg.alg)

\* ------------------------------------------------------------------------
\* Sparse tree on the largest domain of its index type
\* ------------------------------------------------------------------------

\* Width in bits of the scaled-down index type (long long has 64).
WBits == 5

\* LLONG_MAX of the scaled-down type.
WMax == Pow2(WBits - 1) - 1

\* Ranges offered on the largest domain: its two ends, the whole, the upper
\* half, the lower half and the middle.
WideRanges ==
    {<<0, 0>>, <<WMax, WMax>>, <<0, WMax>>, <<WMax \div 2 + 1, WMax>>,
     <<0, WMax \div 2>>, <<WMax \div 2, WMax \div 2 + 1>>}

\* The domain [0, LLONG_MAX], built with overflow wrapping or trapping.
WideConfigs ==
    { [alg |-> a, start |-> 0, end |-> WMax, script |-> NoScript,
       ranges |-> WideRanges, vals |-> SUpdVals(a), bits |-> WBits, build |-> b]
        : a \in {"SumAdd", "MinAssign"}, b \in {"wrap", "trap"} }

SWideInit ==
    /\ scfg \in WideConfigs
    /\ heap = New(EmptyHeap, NewNode(scfg.start, scfg.end, 1))
    /\ sprev = heap
    /\ slast = [kind |-> "none", l |-> 0, r |-> 0, u |-> 0, res |-> SIdOp(scfg.alg),
                out |-> "none"]
    /\ slog = <<>>
    /\ snops = 0
    /\ sstep = 0

SparseWideInit == SWideInit /\ DIdle /\ OIdle

SpecSparseWide == SparseWideInit /\ [][SNext]_vars

\* C26: on the domain [0, 2^(w-1)-1] of w-bit signed indices, the sum
\* start + end from which the constructor of every node computes its
\* midpoint stays within the type (no midpoint computation overflows), no
\* overflow trap fires, and no call runs away.
C26_MidpointInRange ==
    /\ \A p \in DOMAIN heap.nodes :
          ~Overflows(heap.nodes[p].start_ + heap.nodes[p].end_)
    /\ ~heap.trap
    /\ ~heap.lost

\* ------------------------------------------------------------------------
\* Dense tree: the slots a call reads and writes
\* ------------------------------------------------------------------------

\* C27: for every N >= 1, either constructor and every sequence of calls
\* with 0 <= left <= right <= N, every index a call uses on tree_ lies in
\* [0, 2N) and every index it uses on lazy_ lies in [0, N); lazy_[0] stays
\* identityUpdate_.
C27_DenseAccessesInBounds ==
    /\ dlast.accT \subseteq 0..(2 * size_ - 1)
    /\ dlast.accL \subseteq 0..(size_ - 1)
    /\ lazy_[0] = identityUpdate_

\* ------------------------------------------------------------------------
\* Dense tree: Query as an observer
\* ------------------------------------------------------------------------

\* Every Query(a, b), 0 <= a < b <= N, returns the same on the vectors
\* tree1, lazy1 as on tree2, lazy2.
SameAnswers(tree1, lazy1, tree2, lazy2) ==
    \A p \in DRanges :
        QueryRes(tree1, lazy1, p[1], p[2]) = QueryRes(tree2, lazy2, p[1], p[2])

\* The cells behind the two vectors hold in memory m what the heap content g
\* gave them: the call has written none of them.
BehindUntouched(m, g) ==
    /\ m.tree[2 * size_] = g.t[1]
    /\ m.tree[2 * size_ + 1] = g.t[2]
    /\ m.lazy[size_] = g.u[1]
    /\ m.lazy[size_ + 1] = g.u[2]

\* C28 (as claimed): in every reachable state and for every
\* 0 <= l <= r <= N, empty ranges included, Query(l, r) changes nothing but
\* tags it pushes down inside the tree: it writes no cell outside the two
\* vectors, and every Query(a, b) with 0 <= a < b <= N returns after it what
\* it returns without it.
C28_DenseQueryReadOnly ==
    /\ dlast.kind = "Query" =>
          SameAnswers(tree_, lazy_, dprev.tree, dprev.lazy)
    /\ \A l \in 0..size_ : \A r \in l..size_ : \A g \in Heap(dcfg.alg, l, size_) :
          LET m == Query(Mem(tree_, lazy_, g), l, r).m
          IN /\ SameAnswers(TreeOf(m), LazyOf(m), tree_, lazy_)
             /\ BehindUntouched(m, g)

\* ------------------------------------------------------------------------
\* Dense tree: the two constructors side by side
\* ------------------------------------------------------------------------

\* Algebras under which a tree of N copies of idOp shows its updates: plain
\* sums, and min with assignment.
TwinAlgs == {"SumAdd", "MinAssign"}

\* The tree made by the constructor with a given size, and beside it the
\* tree the range constructor makes from N copies of idOp.
DTwinInit ==
    /\ dcfg \in { [alg |-> a, ctor |-> "size", n |-> n,
                   arr |-> [i \in 1..n |-> IdOp(a)], script |-> NoScript]
                    : a \in TwinAlgs, n \in 1..MaxN }
    /\ LET t == SizeCtor(dcfg.alg, dcfg.n)
           w == RangeCtor(dcfg.alg, dcfg.arr)
       IN /\ size_ = t.size
          /\ LOG_ = t.LOG
          /\ tree_ = t.tree
          /\ lazy_ = t.lazy
          /\ dref = [i \in 0..(t.size - 1) |-> t.tree[t.size + i]]
          /\ dprev = [tree |-> t.tree, lazy |-> t.lazy]
          /\ dtwin = [on |-> TRUE, LOG |-> w.LOG, tree |-> w.tree, lazy |-> w.lazy,
                      res |-> IdOp(dcfg.alg)]
    /\ dlast = [kind |-> "none", l |-> 0, r |-> 0, u |-> IdUpd(dcfg.alg),
                res |-> IdOp(dcfg.alg), accT |-> {}, accL |-> {}]
    /\ dnops = 0
    /\ dstep = 0
    /\ dseen = [upd |-> FALSE, empty |-> FALSE]

DenseTwinInit == DTwinInit /\ SIdle /\ OIdle

SpecDenseTwin == DenseTwinInit /\ [][DNext]_vars

\* The value Query(l, r) returns on the second tree.
TwinQueryRes(l, r) ==
    Query(MemOf(dtwin.tree, dtwin.lazy, NoHeap(dcfg.alg), dtwin.LOG), l, r).res

\* C29: for every N >= 1, the tree built by the size constructor and the
\* tree built by the range constructor from N copies of idOp return the same
\* results under every identical sequence of Update and Query calls with
\* 0 <= l < r <= N, although their LOG_ differ: the Query just made returned
\* the same on both, and so does every Query that could be made next.
C29_ConstructorsEquivalent ==
    (dtwin.on /\ DOnlyNonEmpty) =>
        /\ dlast.kind = "Query" => dlast.res = dtwin.res
        /\ \A p \in DRanges :
              QueryRes(tree_, lazy_, p[1], p[2]) = TwinQueryRes(p[1], p[2])

\* C29 witness: on two trees of size 4 with different LOG_, a Query after an
\* Update that had tagged the root returned the same updated value on both.
C29_Witness ==
    /\ dtwin.on /\ DOnlyNonEmpty
    /\ size_ = 4 /\ LOG_ = 2 /\ dtwin.LOG = 3
    /\ dlast.kind = "Query"
    /\ dprev.lazy[1] # identityUpdate_
    /\ dlast.res # identityOp_
    /\ dlast.res = dtwin.res

\* ------------------------------------------------------------------------
\* Sparse tree: Query as an observer
\* ------------------------------------------------------------------------

\* Every Query the configuration offers returns the same on heap h1 as on
\* heap h2, and the root holds the same aggregate in both.
SSameAnswers(h1, h2) ==
    /\ h1.nodes[Root].value_ = h2.nodes[Root].value_
    /\ \A p \in scfg.ranges :
          SQueryRes(h1, p[1], p[2]) = SQueryRes(h2, p[1], p[2])

\* C30: for every start <= l <= r <= end, a Query(l, r) just made has changed
\* neither the aggregate of the node it was called on nor what any
\* Query(a, b) returns afterwards, whatever children it created and tags it
\* pushed down.  Every Query is a step of the specification, so the state
\* after it is compared with the state before it.
C30_SparseQueryReadOnly ==
    slast.kind = "Query" => SSameAnswers(heap, sprev)

\* C30 witness: a Query found a tag on the root, created children, pushed
\* the tag into them and cleared it; the root's aggregate, not idOp, is as
\* before.
C30_Witness ==
    /\ slast.kind = "Query"
    /\ sprev.nodes[Root].lazy_ # SIdUpd(scfg.alg)
    /\ heap.nodes[Root].lazy_ = SIdUpd(scfg.alg)
    /\ heap.next > sprev.next
    /\ heap.nodes[Root].value_ # SIdOp(scfg.alg)
    /\ SSameAnswers(heap, sprev)

====
